---- MODULE Spec2Model ----
(***************************************************************************)
(* Model of the sensor webhook: the payload parser (shared/parser.py), the *)
(* alert evaluator (shared/alerts.py), the per-device alert ledger         *)
(* (blob_storage/alert_log.py) and the HTTP handler (function_app.py).     *)
(*                                                                         *)
(* Python strings are sequences of one-character strings.  Wall-clock      *)
(* times and datetimes are whole minutes since 2000-01-01T00:00 UTC.  A    *)
(* Python call that may raise yields an outcome: Returned(v) or Raised(e). *)
(***************************************************************************)
EXTENDS Integers, Sequences, FiniteSets, TLC

VARIABLES
    \* ---- the webhook (Spec, RaceSpec)
    clock,      \* wall clock, minutes since 2000-01-01T00:00 UTC
    store,      \* blob alerts/{coreid}.json of each coreid
    started,    \* invocations started so far
    faults,     \* storage and mail failures so far
    worker,     \* local variables of the invocation each worker runs
    dispatched, \* history: the deduplicated send attempts, as coreid, box, reason, time
    unsaved,    \* history: coreids for which a returned ledger was not persisted
    blind,      \* history: coreids whose ledger could not be read by a fetch
    \* ---- the parser run on its own (ParserSpec)
    praw,       \* the value handed to parse_payload_data, with how it was built
    pclock,     \* wall clock (datetime.now) at the time of the call
    presult,    \* outcome of parse_payload_data(praw), or NotParsed
    ppc,        \* "input" before the call, "parsed" after it, "reparsed" after a second
    pprev       \* the earlier call of a second call: its clock and outcome

parserVars == <<praw, pclock, presult, ppc, pprev>>
handlerVars == <<clock, store, started, faults, worker, dispatched, unsaved, blind>>
vars == <<clock, store, started, faults, worker, dispatched, unsaved, blind, praw, pclock, presult, ppc, pprev>>

(***************************************************************************)
(* Outcomes of Python calls, and Python dicts                              *)
(***************************************************************************)
Returned(v) == [raised |-> FALSE, val |-> v]
Raised(e)   == [raised |-> TRUE, exc |-> e]

\* a | b : keys of b win
PyMerge(a, b) == b @@ a

Has(d, k) == k \in DOMAIN d

(***************************************************************************)
(* Characters and string primitives                                        *)
(***************************************************************************)
WhitespaceChars == {" ", "\t", "\n"}
DigitChars == {"0", "1", "2", "3", "4", "5", "6", "7", "8", "9"}
DigitVal ==
    ("0" :> 0) @@ ("1" :> 1) @@ ("2" :> 2) @@ ("3" :> 3) @@ ("4" :> 4) @@
    ("5" :> 5) @@ ("6" :> 6) @@ ("7" :> 7) @@ ("8" :> 8) @@ ("9" :> 9)

IsSpace(c) == c \in WhitespaceChars
IsDigit(c) == c \in DigitChars

RECURSIVE LStrip(_)
LStrip(s) == IF Len(s) > 0 /\ IsSpace(Head(s)) THEN LStrip(Tail(s)) ELSE s

RECURSIVE RStrip(_)
RStrip(s) ==
    IF Len(s) > 0 /\ IsSpace(s[Len(s)]) THEN RStrip(SubSeq(s, 1, Len(s) - 1)) ELSE s

\* str.strip()
Strip(s) == RStrip(LStrip(s))

\* re.sub(r"\s+", " ", s)
RECURSIVE CollapseWs(_)
CollapseWs(s) ==
    IF Len(s) = 0 THEN <<>>
    ELSE IF IsSpace(Head(s)) THEN <<" ">> \o CollapseWs(LStrip(Tail(s)))
    ELSE <<Head(s)>> \o CollapseWs(Tail(s))

\* str.split(",")
RECURSIVE SplitComma(_)
SplitComma(s) ==
    IF \A i \in 1..Len(s) : s[i] # ","
    THEN <<s>>
    ELSE LET i == CHOOSE k \in 1..Len(s) :
                      s[k] = "," /\ \A j \in 1..(k - 1) : s[j] # ","
         IN <<SubSeq(s, 1, i - 1)>> \o SplitComma(SubSeq(s, i + 1, Len(s)))

\* re.match(r'^\d*$', p)
AllDigits(s) == \A i \in 1..Len(s) : IsDigit(s[i])

RECURSIVE IntOf(_)
IntOf(s) ==
    IF Len(s) = 0 THEN 0
    ELSE IntOf(SubSeq(s, 1, Len(s) - 1)) * 10 + DigitVal[s[Len(s)]]

\* int(s) on a token of digits
PyInt(s) ==
    IF Len(s) > 0 /\ AllDigits(s)
    THEN Returned(IntOf(s))
    ELSE Raised("invalid literal for int() with base 10")

StartsWithComma(s) == Len(s) > 0 /\ s[1] = ","

\* s has the literal lit at position pos
HasAt(s, pos, lit) ==
    /\ pos + Len(lit) - 1 <= Len(s)
    /\ \A i \in 1..Len(lit) : s[pos + i - 1] = lit[i]

(***************************************************************************)
(* Dates: datetime(...), isoformat(), fromisoformat()                      *)
(***************************************************************************)
IsLeap(y) == (y % 4 = 0 /\ y % 100 # 0) \/ y % 400 = 0

DaysInMonth(y, m) ==
    IF m = 2 THEN (IF IsLeap(y) THEN 29 ELSE 28)
    ELSE IF m \in {4, 6, 9, 11} THEN 30 ELSE 31

RECURSIVE DaysBeforeMonth(_, _)
DaysBeforeMonth(y, m) ==
    IF m <= 1 THEN 0 ELSE DaysBeforeMonth(y, m - 1) + DaysInMonth(y, m - 1)

\* leap days in the years 2000 .. y-1
LeapsBefore(y) ==
    LET n == y - 2000 IN ((n + 3) \div 4) - ((n + 99) \div 100) + ((n + 399) \div 400)

\* a valid UTC datetime as minutes since 2000-01-01T00:00
ToMinutes(y, m, d, h, mi) ==
    (((365 * (y - 2000) + LeapsBefore(y) + DaysBeforeMonth(y, m) + (d - 1)) * 24) + h) * 60
        + mi

\* datetime.year / datetime.month of a wall-clock value
YearOf(t) ==
    CHOOSE y \in 2000..2099 :
        ToMinutes(y, 1, 1, 0, 0) <= t /\ t < ToMinutes(y + 1, 1, 1, 0, 0)

MonthOf(t) ==
    LET y == YearOf(t)
    IN CHOOSE m \in 1..12 :
        /\ ToMinutes(y, m, 1, 0, 0) <= t
        /\ t < ToMinutes(y, m, DaysInMonth(y, m), 23, 59) + 1

\* An ISO-8601 text: "aware" carries a UTC offset, "naive" none, "zulu" ends in Z;
\* "garbage" is a non-empty text fromisoformat rejects, "empty" is "",
\* "nonstr" a truthy value that is not a string.
IsoText(kind, t) == [iso |-> kind, t |-> t]
EmptyText == IsoText("empty", 0)

\* datetime.isoformat() of an aware UTC datetime
IsoFormat(t) == IsoText("aware", t)

\* truthiness of a text value
Truthy(x) == x.iso # "empty"

\* datetime(year, month, day, hour, minute, tzinfo=utc).isoformat()
GetUtcTimestamp(year, month, day, hour, minute) ==
    IF month < 1 \/ month > 12 THEN Raised("month must be in 1..12")
    ELSE IF day < 1 \/ day > DaysInMonth(year, month)
    THEN Raised("day is out of range for month")
    ELSE IF hour > 23 THEN Raised("hour must be in 0..23")
    ELSE IF minute > 59 THEN Raised("minute must be in 0..59")
    ELSE Returned(IsoFormat(ToMinutes(year, month, day, hour, minute)))

\* _parse_datetime: YYMMDD, hour, minute
ParseDatetime(box_date, hour, minute) ==
    GetUtcTimestamp(2000 + IntOf(SubSeq(box_date, 1, 2)),
                    IntOf(SubSeq(box_date, 3, 4)),
                    IntOf(SubSeq(box_date, 5, 6)), hour, minute)

(***************************************************************************)
(* Python values handed to the parser: None, a string, or something else   *)
(***************************************************************************)
PyStr(s) == [kind |-> "str", s |-> s, truthy |-> Len(s) > 0]
PyNone == [kind |-> "none", s |-> <<>>, truthy |-> FALSE]
PyOther(truthy) == [kind |-> "other", s |-> <<>>, truthy |-> truthy]

(***************************************************************************)
(* shared/parser.py                                                        *)
(***************************************************************************)
GetBaseDict(datatype, raw, now) ==
    [datatype |-> datatype, raw |-> raw, parsed_at |-> IsoFormat(now),
     parser_version |-> 1]

\* variant: the error text is left out
GetErrorDictNoText(e) == [malformed |-> TRUE]

GetErrorDict(e) == [malformed |-> TRUE, parsing_error |-> e]

SetupDone ==
    <<" ", "L", "T", "E", " ", "S", "e", "t", "u", "p", " ", "D", "o", "n", "e">>

\* ^([\S]*?)(\d{6}) (\d{1,2}):(\d{2}) with a box id of k characters and an hour
\* of hl digits; the text after the minute starts at k + 11 + hl
HeadAt(s, k, hl) ==
    /\ k + 10 + hl <= Len(s)
    /\ \A i \in 1..k : ~IsSpace(s[i])
    /\ \A i \in (k + 1)..(k + 6) : IsDigit(s[i])
    /\ s[k + 7] = " "
    /\ \A i \in (k + 8)..(k + 7 + hl) : IsDigit(s[i])
    /\ s[k + 8 + hl] = ":"
    /\ IsDigit(s[k + 9 + hl]) /\ IsDigit(s[k + 10 + hl])

\* the tail (E\d+)$ starting at position pos (after a space)
ErrorTailAt(s, pos) ==
    /\ pos + 2 <= Len(s)
    /\ s[pos] = " " /\ s[pos + 1] = "E"
    /\ \A i \in (pos + 2)..Len(s) : IsDigit(s[i])

StartupMatches(s) ==
    {m \in (0..Len(s)) \X {1, 2} :
        HeadAt(s, m[1], m[2]) /\ HasAt(s, m[1] + 11 + m[2], SetupDone)}

ErrorMatches(s) ==
    {m \in (0..Len(s)) \X {1, 2} :
        HeadAt(s, m[1], m[2]) /\ ErrorTailAt(s, m[1] + 11 + m[2])}

\* the match the regex engine reports: lazy box id, greedy hour
FirstMatch(ms) ==
    CHOOSE m \in ms :
        \A o \in ms : m[1] < o[1] \/ (m[1] = o[1] /\ m[2] >= o[2])

\* match.group(n)
Group(s, m, n) ==
    CASE n = 1 -> SubSeq(s, 1, m[1])
      [] n = 2 -> SubSeq(s, m[1] + 1, m[1] + 6)
      [] n = 3 -> SubSeq(s, m[1] + 8, m[1] + 7 + m[2])
      [] n = 4 -> SubSeq(s, m[1] + 9 + m[2], m[1] + 10 + m[2])
      [] n = 5 -> SubSeq(s, m[1] + 12 + m[2], Len(s))

\* the try block of _parse_startup_message and of _parse_error_message
MessageBody(base_dict, s, m) ==
    LET timestamp == ParseDatetime(Group(s, m, 2), IntOf(Group(s, m, 3)),
                                   IntOf(Group(s, m, 4)))
    IN IF timestamp.raised THEN timestamp
       ELSE Returned(PyMerge(base_dict, [timestamp |-> timestamp.val]))

ParseStartupMessage(s, m, now) ==
    LET base_dict == GetBaseDict("startup", PyStr(s), now) @@ [box_id |-> Group(s, m, 1)]
        body == MessageBody(base_dict, s, m)
    IN IF body.raised
       THEN Returned(PyMerge(base_dict, GetErrorDict(body.exc)))
       ELSE body

ParseErrorMessage(s, m, now) ==
    LET base_dict == GetBaseDict("error", PyStr(s), now)
                        @@ [box_id |-> Group(s, m, 1), error_code |-> Group(s, m, 5)]
        body == MessageBody(base_dict, s, m)
    IN IF body.raised
       THEN Returned(PyMerge(base_dict, GetErrorDict(body.exc)))
       ELSE body

\* mutant of Triples: RH and Noise read from each other's position
TriplesSwapped(readings) ==
    [j \in 1..(Len(readings) \div 3) |->
        [T |-> IntOf(readings[3 * j - 2]),
         RH |-> IntOf(readings[3 * j]),
         Noise |-> IntOf(readings[3 * j - 1])]]

\* the triples of _parse_environment_data, lines 95-102
Triples(readings) ==
    [j \in 1..(Len(readings) \div 3) |->
        [T |-> IntOf(readings[3 * j - 2]),
         RH |-> IntOf(readings[3 * j - 1]),
         Noise |-> IntOf(readings[3 * j])]]

\* mutant of EnvironmentBody: the reading count is not checked before grouping
EnvironmentBodyNoCount(base_dict, s, parts, now) ==
    IF ~StartsWithComma(s)
    THEN Raised("Invalid environment format: no leading comma")
    ELSE IF \E i \in 2..5 : PyInt(parts[i]).raised
    THEN Raised("invalid literal for int() with base 10")
    ELSE
        LET month == IntOf(parts[2])
            readings == SubSeq(parts, 6, Len(parts))
            year == IF MonthOf(now) = 1 /\ month = 12 THEN YearOf(now) - 1
                    ELSE IF MonthOf(now) = 12 /\ month = 1 THEN YearOf(now) + 1
                    ELSE YearOf(now)
            timestamp == GetUtcTimestamp(year, month, IntOf(parts[3]),
                                         IntOf(parts[4]), IntOf(parts[5]))
        IN IF timestamp.raised THEN timestamp
           ELSE IF \E i \in 1..Len(readings) : PyInt(readings[i]).raised
           THEN Raised("invalid literal for int() with base 10")
           ELSE Returned(PyMerge(base_dict,
                    [timestamp |-> timestamp.val, readings |-> Triples(readings)]))

\* variant: the year is always the year of the clock
EnvironmentBodyThisYear(base_dict, s, parts, now) ==
    IF ~StartsWithComma(s)
    THEN Raised("Invalid environment format: no leading comma")
    ELSE IF \E i \in 2..5 : PyInt(parts[i]).raised
    THEN Raised("invalid literal for int() with base 10")
    ELSE
        LET month == IntOf(parts[2])
            readings == SubSeq(parts, 6, Len(parts))
            timestamp == GetUtcTimestamp(YearOf(now), month, IntOf(parts[3]),
                                         IntOf(parts[4]), IntOf(parts[5]))
        IN IF timestamp.raised THEN timestamp
           ELSE IF Len(readings) % 3 # 0
           THEN Raised("Invalid environment format: number of readings non divisible by 3 (T, RH, Noise)")
           ELSE IF \E i \in 1..Len(readings) : PyInt(readings[i]).raised
           THEN Raised("invalid literal for int() with base 10")
           ELSE Returned(PyMerge(base_dict,
                    [timestamp |-> timestamp.val, readings |-> Triples(readings)]))

\* the try block of _parse_environment_data, lines 68-104; parts is 1-based
EnvironmentBody(base_dict, s, parts, now) ==
    IF ~StartsWithComma(s)
    THEN Raised("Invalid environment format: no leading comma")
    ELSE IF \E i \in 2..5 : PyInt(parts[i]).raised
    THEN Raised("invalid literal for int() with base 10")
    ELSE
        LET month == IntOf(parts[2])
            day == IntOf(parts[3])
            hour == IntOf(parts[4])
            minute == IntOf(parts[5])
            readings == SubSeq(parts, 6, Len(parts))
            year == IF MonthOf(now) = 1 /\ month = 12 THEN YearOf(now) - 1
                    ELSE IF MonthOf(now) = 12 /\ month = 1 THEN YearOf(now) + 1
                    ELSE YearOf(now)
            timestamp == GetUtcTimestamp(year, month, day, hour, minute)
        IN IF timestamp.raised THEN timestamp
           ELSE IF Len(readings) % 3 # 0
           THEN Raised("Invalid environment format: number of readings non divisible by 3 (T, RH, Noise)")
           ELSE IF \E i \in 1..Len(readings) : PyInt(readings[i]).raised
           THEN Raised("invalid literal for int() with base 10")
           ELSE Returned(PyMerge(base_dict,
                    [timestamp |-> timestamp.val, readings |-> Triples(readings)]))

\* mutant of ParseEnvironmentData: no except clause around the validation
ParseEnvironmentDataNoCatch(s, parts, now) ==
    EnvironmentBody(GetBaseDict("environment", PyStr(s), now) @@ [box_id |-> parts[1]],
                    s, parts, now)

ParseEnvironmentData(s, parts, now) ==
    LET base_dict == GetBaseDict("environment", PyStr(s), now) @@ [box_id |-> parts[1]]
        body == EnvironmentBody(base_dict, s, parts, now)
    IN IF body.raised
       THEN Returned(PyMerge(base_dict, GetErrorDict(body.exc)))
       ELSE body

\* lines 39-40: the stripped tokens, without the empty one before a leading comma
EnvironmentParts(s) ==
    LET all == SplitComma(s)
        stripped == [i \in 1..Len(all) |-> Strip(all[i])]
    IN IF StartsWithComma(s) THEN Tail(stripped) ELSE stripped

\* parse_payload_data(raw) called when the wall clock reads now
\* variant: the environment shape is tried before the two message shapes
ParsePayloadDataEnvFirst(raw, now) ==
    IF ~raw.truthy \/ raw.kind # "str"
    THEN Returned(GetBaseDict("invalid", raw, now))
    ELSE
        LET s == CollapseWs(Strip(raw.s))
            parts == EnvironmentParts(s)
        IN IF Len(parts) >= 9 /\ \A i \in 2..Len(parts) : AllDigits(parts[i])
           THEN ParseEnvironmentData(s, parts, now)
           ELSE IF StartupMatches(s) # {}
           THEN ParseStartupMessage(s, FirstMatch(StartupMatches(s)), now)
           ELSE IF ErrorMatches(s) # {}
           THEN ParseErrorMessage(s, FirstMatch(ErrorMatches(s)), now)
           ELSE Returned(GetBaseDict("unknown", PyStr(s), now))

\* parse_payload_data, lines 23-45
ParsePayloadData(raw, now) ==
    IF ~raw.truthy \/ raw.kind # "str"
    THEN Returned(GetBaseDict("invalid", raw, now))
    ELSE
        LET s == CollapseWs(Strip(raw.s))
            parts == EnvironmentParts(s)
        IN IF StartupMatches(s) # {}
           THEN ParseStartupMessage(s, FirstMatch(StartupMatches(s)), now)
           ELSE IF ErrorMatches(s) # {}
           THEN ParseErrorMessage(s, FirstMatch(ErrorMatches(s)), now)
           ELSE IF Len(parts) >= 9 /\ \A i \in 2..Len(parts) : AllDigits(parts[i])
           THEN ParseEnvironmentData(s, parts, now)
           ELSE Returned(GetBaseDict("unknown", PyStr(s), now))

(***************************************************************************)
(* Text literals of the program, as strings of characters                  *)
(***************************************************************************)
StrInvalid == <<"i", "n", "v", "a", "l", "i", "d">>
StrUnknown == <<"u", "n", "k", "n", "o", "w", "n">>
StrMalformed == <<"m", "a", "l", "f", "o", "r", "m", "e", "d">>
StrLatency == <<"l", "a", "t", "e", "n", "c", "y">>
StrNoCoreid == <<"n", "o", "_", "c", "o", "r", "e", "i", "d">>
StrE == <<"E">>
StrNA == <<"N", "/", "A">>

\* the characters of a datatype name
DatatypeText(datatype) ==
    CASE datatype = "invalid" -> StrInvalid
      [] datatype = "unknown" -> StrUnknown
      [] OTHER -> <<datatype>>

\* a formatted message: its fixed text and the values formatted into it
Text(fixed, args) == [text |-> fixed, args |-> args]

\* Python None, and an unbound local variable
NoneVal == [py |-> "None"]
Unbound == [py |-> "unbound"]
IsDict(x) == ~Has(x, "py")

\* dict.get(key, default)
Get(d, k, default) == IF Has(d, k) THEN d[k] ELSE default

(***************************************************************************)
(* shared/utils.py                                                         *)
(***************************************************************************)
\* parse_iso_datetime: the datetime, aware or naive, or the exception raised
ParseIsoDatetime(x) ==
    CASE x.iso \in {"aware", "zulu"} -> Returned([aware |-> TRUE, t |-> x.t])
      [] x.iso = "naive" -> Returned([aware |-> FALSE, t |-> x.t])
      [] x.iso = "nonstr" -> Raised("AttributeError")
      [] OTHER -> Raised("ValueError")

(***************************************************************************)
(* A ledger (dict reason -> timestamp text), kept in insertion order as a  *)
(* sequence of <<reason, timestamp>> pairs                                 *)
(***************************************************************************)
Keys(d) == {d[i][1] : i \in 1..Len(d)}

Lookup(d, k) == d[CHOOSE i \in 1..Len(d) : d[i][1] = k][2]

\* d[k] = v
DictSet(d, k, v) ==
    IF k \in Keys(d)
    THEN [i \in 1..Len(d) |-> IF d[i][1] = k THEN <<k, v>> ELSE d[i]]
    ELSE Append(d, <<k, v>>)

(***************************************************************************)
(* blob_storage/alert_log.py                                               *)
(***************************************************************************)
ALERT_EXPIRATION_MINUTES == 360

\* variant: one ledger object for all devices
BlobPathShared(coreid) == <<>>

\* the key of the blob alerts/{coreid}.json
BlobPath(coreid) == coreid

MissingBlob == [exists |-> FALSE, alerts |-> <<>>]
LedgerBlob(alerts) == [exists |-> TRUE, alerts |-> alerts]

\* the loop of get_recent_alerts, lines 44-53: an exception other than ValueError
\* leaves the loop for the outer handler, which returns what was collected so far
RECURSIVE RecentLoop(_, _, _)
RecentLoop(items, now, result) ==
    IF Len(items) = 0 THEN result
    ELSE
        LET reason == Head(items)[1]
            timestamp == Head(items)[2]
            dt == ParseIsoDatetime(timestamp)
        IN IF ~Truthy(timestamp) \/ Len(reason) = 0
           THEN RecentLoop(Tail(items), now, result)
           ELSE IF dt.raised
           THEN (IF dt.exc = "ValueError"
                 THEN RecentLoop(Tail(items), now, result)
                 ELSE result)
           ELSE IF ~dt.val.aware THEN result
           ELSE IF now - dt.val.t < ALERT_EXPIRATION_MINUTES
           THEN RecentLoop(Tail(items), now, DictSet(result, reason, timestamp))
           ELSE RecentLoop(Tail(items), now, result)

\* variant: a read error is not noticed and the stored entries are used
GetRecentAlertsStale(blob, storage_ok, now) ==
    IF ~blob.exists THEN Returned(<<>>)
    ELSE Returned(RecentLoop(blob.alerts, now, <<>>))

\* get_recent_alerts(coreid, blob_client): blob is the stored object, storage_ok
\* whether the storage calls (exists, download, json.loads) go through
GetRecentAlerts(blob, storage_ok, now) ==
    IF ~storage_ok THEN Returned(<<>>)
    ELSE IF ~blob.exists THEN Returned(<<>>)
    ELSE Returned(RecentLoop(blob.alerts, now, <<>>))

\* variant: the upload keeps the stored entries the new ledger does not have
UploadAlertLogMerged(alert_log, old_blob, storage_ok) ==
    IF storage_ok
    THEN Returned(LedgerBlob(
             alert_log \o SelectSeq(old_blob.alerts,
                                    LAMBDA e : e[1] \notin Keys(alert_log))))
    ELSE Raised("StorageError")

\* upload_alert_log(alert_log, coreid, blob_client): the blob it leaves, or the
\* storage error it raises
UploadAlertLog(alert_log, old_blob, storage_ok) ==
    IF storage_ok THEN Returned(LedgerBlob(alert_log)) ELSE Raised("StorageError")

(***************************************************************************)
(* shared/alerts.py                                                        *)
(***************************************************************************)
MAX_LATENCY_MINUTES == 30

SUBJECT_PREFFIX == "[SENSOR DATA ALERT TRIGGERED] "
EMAIL_RECIPIENT_DEVELOP == "develop"
EMAIL_RECIPIENT_DEPLOY == "deploy"

CheckInvalid(parsed) ==
    IF parsed.datatype = "invalid"
    THEN [reason |-> DatatypeText(parsed.datatype),
          subject |-> Text("Invalid data received", <<>>),
          summary |-> Text("Invalid data received: 'data' field must contain a non-empty string.", <<>>)]
    ELSE NoneVal

CheckUnknown(parsed) ==
    IF parsed.datatype = "unknown"
    THEN [reason |-> DatatypeText(parsed.datatype),
          subject |-> Text("Unrecognized data format received", <<>>),
          summary |-> Text("Unrecognized data format: does not match expected patterns", <<>>)]
    ELSE NoneVal

CheckError(parsed) ==
    IF parsed.datatype = "error"
    THEN LET box_id == Get(parsed, "box_id", StrUnknown)
             error_code == Get(parsed, "error_code", StrE)
             alert_subject == Text("Error {error_code} detected in Box {box_id}",
                                   <<error_code, box_id>>)
         IN [reason |-> error_code, subject |-> alert_subject, summary |-> alert_subject]
    ELSE NoneVal

CheckMalformed(parsed) ==
    IF Has(parsed, "malformed") /\ parsed.malformed = TRUE
    THEN LET parsing_error ==
                 Get(parsed, "parsing_error",
                     "Data does not match the expected pattern for type")
         IN [reason |-> StrMalformed,
             subject |-> Text("Malformed {datatype} data received", <<parsed.datatype>>),
             summary |-> Text("Parsing error occurred. {parsing_error}.", <<parsing_error>>)]
    ELSE NoneVal

\* the try block of _check_latency: published_at - timestamp in minutes
LatencyMinutes(parsed) ==
    LET published_at == ParseIsoDatetime(parsed.published_at)
        timestamp == ParseIsoDatetime(parsed.timestamp)
    IN IF published_at.raised THEN published_at
       ELSE IF timestamp.raised THEN timestamp
       ELSE IF published_at.val.aware # timestamp.val.aware THEN Raised("TypeError")
       ELSE Returned(published_at.val.t - timestamp.val.t)

\* variant: the threshold itself counts as high latency
CheckLatencyAtThreshold(parsed) ==
    IF /\ Has(parsed, "timestamp") /\ Truthy(parsed.timestamp)
       /\ Has(parsed, "published_at") /\ Truthy(parsed.published_at)
    THEN LET latency_minutes == LatencyMinutes(parsed)
         IN IF ~latency_minutes.raised /\ latency_minutes.val >= MAX_LATENCY_MINUTES
            THEN [reason |-> StrLatency,
                  subject |-> Text("High latency in Box {box_id}",
                                   <<Get(parsed, "box_id", StrUnknown)>>),
                  summary |-> Text("High transmission latency: {latency_minutes} minutes (threshold: 30m).",
                                   <<latency_minutes.val>>)]
            ELSE NoneVal
    ELSE NoneVal

\* _check_latency, lines 200-224
CheckLatency(parsed) ==
    IF /\ Has(parsed, "timestamp") /\ Truthy(parsed.timestamp)
       /\ Has(parsed, "published_at") /\ Truthy(parsed.published_at)
    THEN LET latency_minutes == LatencyMinutes(parsed)
         IN IF ~latency_minutes.raised /\ latency_minutes.val > MAX_LATENCY_MINUTES
            THEN [reason |-> StrLatency,
                  subject |-> Text("High latency in Box {box_id}",
                                   <<Get(parsed, "box_id", StrUnknown)>>),
                  summary |-> Text("High transmission latency: {latency_minutes} minutes (threshold: 30m).",
                                   <<latency_minutes.val>>)]
            ELSE NoneVal
    ELSE NoneVal

\* the first check of the list that triggers, else None
FirstAlert(checks) ==
    IF \E i \in 1..Len(checks) : IsDict(checks[i])
    THEN checks[CHOOSE i \in 1..Len(checks) :
                    IsDict(checks[i]) /\ \A j \in 1..(i - 1) : ~IsDict(checks[j])]
    ELSE NoneVal

\* variant: a latency alert takes the place of the deploy-track alert
DeployAlertLatencyFirst(parsed) ==
    LET deploy_alert == FirstAlert(<<CheckInvalid(parsed), CheckError(parsed)>>)
        latency == CheckLatency(parsed)
    IN IF IsDict(latency) THEN latency ELSE deploy_alert

\* lines 59-74: the deploy-track candidate, latency folded in
DeployAlert(parsed) ==
    LET deploy_alert == FirstAlert(<<CheckInvalid(parsed), CheckError(parsed)>>)
        latency == CheckLatency(parsed)
    IN IF IsDict(deploy_alert) /\ IsDict(latency)
       THEN deploy_alert @@ [latency |-> latency.summary]
       ELSE IF ~IsDict(deploy_alert) /\ IsDict(latency) THEN latency
       ELSE deploy_alert

\* lines 76-83: the develop-track candidate
DevelopAlert(parsed) == FirstAlert(<<CheckUnknown(parsed), CheckMalformed(parsed)>>)

\* _compose_body: the summary line, the latency note when there is one, then
\* the fields of the record
ComposeBody(parsed, alert) ==
    [prefix |-> SUBJECT_PREFFIX,
     summary |-> <<Get(alert, "summary", Text("", <<>>))>>
                   \o (IF Has(alert, "latency") THEN <<alert.latency>> ELSE <<>>),
     box_id |-> Get(parsed, "box_id", StrUnknown),
     coreid |-> Get(parsed, "coreid", StrNA),
     published_at |-> Get(parsed, "published_at", StrNA),
     parsed_at |-> Get(parsed, "parsed_at", StrNA),
     data |-> Get(parsed, "raw", StrNA)]

\* _send_alert_email called with the keyword arguments kwargs: a call that does
\* not fit the signature raises TypeError; a failure of the delivery is caught
\* inside and the call returns
SendAlertEmail(kwargs, smtp_ok) ==
    IF DOMAIN kwargs # {"subject", "body", "recipients"}
    THEN Raised("TypeError")
    ELSE Returned([subject |-> kwargs.subject, body |-> kwargs.body,
                   to |-> kwargs.recipients, delivered |-> smtp_ok])

(***************************************************************************)
(* blob_storage/uploader.py                                                *)
(***************************************************************************)
\* _get_blob_folder
GetBlobFolder(parsed) ==
    LET base_folder == IF Get(parsed, "datatype", "unknown") = "invalid"
                       THEN "unknown"
                       ELSE Get(parsed, "datatype", "unknown")
    IN IF Has(parsed, "malformed") /\ parsed.malformed = TRUE
       THEN <<base_folder, "malformed">>
       ELSE <<base_folder>>

(***************************************************************************)
(* One invocation of webhook_handler, step by step.  A worker holds the    *)
(* local variables of the invocation it is running.                        *)
(***************************************************************************)
Workers == {"w1", "w2"}

Some(v) == [py |-> "value", val |-> v]

NotFetched == [done |-> FALSE, ok |-> FALSE, found |-> FALSE, at |-> 0, ledger |-> <<>>]

Fresh ==
    [pc |-> "idle",
     valid_json |-> FALSE,          \* req.get_json() returned
     parsed |-> NoneVal,
     deploy_alert |-> NoneVal,
     develop_alert |-> NoneVal,
     fetched |-> NotFetched,        \* what get_recent_alerts returned, and when
     recent_alerts |-> <<>>,
     alerts_triggered |-> FALSE,
     updated_alert_log |-> Unbound,
     check_raised |-> FALSE,        \* check_and_alert raised
     sent |-> <<>>,                 \* the send attempts of this invocation, in order
     persist |-> "none",            \* upload_alert_log: none, skipped, ok, failed
     blob_attempted |-> FALSE,      \* upload_to_blob was called
     uploaded |-> <<>>,             \* folder the record was stored under
     status |-> 0]                  \* HTTP status returned

Ended == {"done", "crashed"}

\* ---- requests
Request(json, data, published_at, coreid) ==
    [json |-> json, data |-> data, published_at |-> published_at, coreid |-> coreid]

DataUnknown == PyStr(<<"h", "e", "l", "l", "o">>)
DataError ==
    PyStr(<<"B", "O", "X", "1", "2", "5", "0", "1", "0", "1", " ",
            "0", "9", ":", "0", "0", " ", "E", "7">>)
DataErrorMalformed ==
    PyStr(<<"B", "O", "X", "1", "2", "5", "1", "3", "0", "1", " ",
            "0", "9", ":", "0", "0", " ", "E", "7">>)
\* the error message of another box
DataErrorBox2 ==
    PyStr(<<"B", "O", "X", "2", "2", "5", "0", "1", "0", "1", " ",
            "0", "9", ":", "0", "0", " ", "E", "7">>)
DataEnvironment ==
    PyStr(<<",", "B", "O", "X", "1", ",", "0", "1", ",", "0", "1", ",", "0", "9", ",",
            "0", "0", ",", "2", "0", ",", "5", "0", ",", "5", ",", "2", "1", ",",
            "5", "1", ",", "6">>)

\* the device timestamp of the messages above is 2025-01-01T09:00
PublishedLate == IsoFormat(ToMinutes(2025, 1, 1, 9, 31))
PublishedEdge == IsoFormat(ToMinutes(2025, 1, 1, 9, 30))

StartTime == ToMinutes(2025, 1, 1, 9, 35)

CoreIds == {<<"A">>, <<>>, StrNoCoreid}

Payloads ==
    {<<PyNone, EmptyText>>, <<DataUnknown, EmptyText>>,
     <<DataError, PublishedLate>>, <<DataErrorMalformed, PublishedLate>>,
     <<DataEnvironment, PublishedLate>>, <<DataEnvironment, PublishedEdge>>}

\* every payload for device A; payloads without coreid, two of them error
\* messages of different boxes; one whose coreid is the text no_coreid, a body
\* that is not JSON and one that is not an object
Requests ==
    {Request("object", p[1], p[2], <<"A">>) : p \in Payloads}
        \cup {Request("object", DataUnknown, EmptyText, <<>>),
              Request("object", DataError, PublishedLate, <<>>),
              Request("object", DataErrorBox2, PublishedLate, <<>>),
              Request("object", DataUnknown, EmptyText, StrNoCoreid),
              Request("invalid", PyNone, EmptyText, <<>>),
              Request("other", PyNone, EmptyText, <<>>)}

\* the wall-clock readings of a run: the start, and just before and at the
\* expiry of an alert dispatched at the start
ClockValues ==
    {StartTime, StartTime + ALERT_EXPIRATION_MINUTES - 1,
     StartTime + ALERT_EXPIRATION_MINUTES}

\* parse_payload_data on the request data above, at each clock reading
ParseTable ==
    [d \in {PyNone, DataUnknown, DataError, DataErrorMalformed, DataErrorBox2,
           DataEnvironment} |->
        [t \in ClockValues |-> ParsePayloadData(d, t)]]

\* ---- webhook_handler lines 26-46: read the request and parse it
Received(r, now) ==
    LET parsed == ParseTable[r.data][now]
    IN IF r.json = "invalid" THEN [Fresh EXCEPT !.pc = "done", !.status = 400]
       ELSE IF r.json = "other"
       THEN [Fresh EXCEPT !.pc = "crashed", !.valid_json = TRUE]
       ELSE IF parsed.raised
       THEN [Fresh EXCEPT !.pc = "crashed", !.valid_json = TRUE]
       ELSE [Fresh EXCEPT
                !.pc = "check", !.valid_json = TRUE,
                !.parsed = [event |-> <<>>, published_at |-> r.published_at,
                            coreid |-> r.coreid] @@ parsed.val]

\* ---- check_and_alert lines 48-87
Coreid(loc) == Get(loc.parsed, "coreid", StrNoCoreid)

\* lines 52-57: the notice sent when the record has no coreid
NoCoreidNotice(parsed, smtp_ok) ==
    SendAlertEmail(
        [subject |-> <<SUBJECT_PREFFIX, Text("No coreid in the incoming sensor data", <<>>)>>,
         body |-> ComposeBody(parsed, <<>>),
         recipient |-> EMAIL_RECIPIENT_DEVELOP],
        smtp_ok)

\* the handler's except clause around check_and_alert, lines 52-54
CheckRaised(loc) == [loc EXCEPT !.check_raised = TRUE, !.pc = "persist"]

\* variant: the dispatch loop is entered without the ledger having been fetched
EvaluatedNoFetch(loc, smtp_ok, now) ==
    LET deploy_alert == DeployAlert(loc.parsed)
        develop_alert == DevelopAlert(loc.parsed)
    IN IF Coreid(loc) = StrNoCoreid THEN CheckRaised(loc)
       ELSE IF ~IsDict(deploy_alert) /\ ~IsDict(develop_alert)
       THEN [loc EXCEPT !.updated_alert_log = NoneVal, !.pc = "persist"]
       ELSE [loc EXCEPT !.deploy_alert = deploy_alert,
                        !.develop_alert = develop_alert, !.pc = "deploy"]

Evaluated(loc, smtp_ok, now) ==
    LET notice == NoCoreidNotice(loc.parsed, smtp_ok)
        deploy_alert == DeployAlert(loc.parsed)
        develop_alert == DevelopAlert(loc.parsed)
        noticed == IF Coreid(loc) = StrNoCoreid
                   THEN [loc EXCEPT !.sent =
                            Append(@, notice.val @@ [at |-> now, reason |-> <<>>])]
                   ELSE loc
    IN IF Coreid(loc) = StrNoCoreid /\ notice.raised THEN CheckRaised(loc)
       ELSE IF ~IsDict(deploy_alert) /\ ~IsDict(develop_alert)
       THEN [noticed EXCEPT !.updated_alert_log = NoneVal, !.pc = "persist"]
       ELSE [noticed EXCEPT !.deploy_alert = deploy_alert,
                            !.develop_alert = develop_alert, !.pc = "fetch"]

\* ---- line 91
Fetched(loc, blob, storage_ok, now) ==
    LET recent_alerts == GetRecentAlerts(blob, storage_ok, now)
    IN IF recent_alerts.raised THEN CheckRaised(loc)
       ELSE [loc EXCEPT
                !.recent_alerts = recent_alerts.val,
                !.fetched = [done |-> TRUE, ok |-> storage_ok, found |-> blob.exists, at |-> now,
                             ledger |-> recent_alerts.val],
                !.pc = "deploy"]

\* variant: the loop body does not look at the ledger
SendsUnchecked(loc, alert) ==
    /\ IsDict(alert)
    /\ Len(Get(alert, "reason", <<>>)) > 0

\* whether the loop body sends for this candidate, lines 98-100
Sends(loc, alert) ==
    /\ IsDict(alert)
    /\ Len(Get(alert, "reason", <<>>)) > 0
    /\ Get(alert, "reason", <<>>) \notin Keys(loc.recent_alerts)

\* variant: an iteration whose delivery failed leaves the ledger as it was
DispatchedRollback(loc, alert, recipient, smtp_ok, now, next_pc) ==
    LET reason == Get(alert, "reason", <<>>)
        email == SendAlertEmail(
                    [subject |-> <<SUBJECT_PREFFIX,
                                   Get(alert, "subject", Text("No subject", <<>>))>>,
                     body |-> ComposeBody(loc.parsed, alert),
                     recipients |-> recipient],
                    smtp_ok)
    IN IF ~Sends(loc, alert) THEN [loc EXCEPT !.pc = next_pc]
       ELSE IF email.raised THEN CheckRaised(loc)
       ELSE IF ~email.val.delivered
       THEN [loc EXCEPT
                !.sent = Append(@, email.val @@ [at |-> now, reason |-> reason]),
                !.pc = next_pc]
       ELSE [loc EXCEPT
                !.sent = Append(@, email.val @@ [at |-> now, reason |-> reason]),
                !.recent_alerts = DictSet(@, reason, IsoFormat(now)),
                !.alerts_triggered = TRUE,
                !.pc = next_pc]

\* variant: a suppressed candidate refreshes the timestamp of its reason
DispatchedRefresh(loc, alert, recipient, smtp_ok, now, next_pc) ==
    LET reason == Get(alert, "reason", <<>>)
        email == SendAlertEmail(
                    [subject |-> <<SUBJECT_PREFFIX,
                                   Get(alert, "subject", Text("No subject", <<>>))>>,
                     body |-> ComposeBody(loc.parsed, alert),
                     recipients |-> recipient],
                    smtp_ok)
    IN IF ~Sends(loc, alert)
       THEN (IF IsDict(alert) /\ reason \in Keys(loc.recent_alerts)
             THEN [loc EXCEPT !.recent_alerts = DictSet(@, reason, IsoFormat(now)),
                              !.pc = next_pc]
             ELSE [loc EXCEPT !.pc = next_pc])
       ELSE IF email.raised THEN CheckRaised(loc)
       ELSE [loc EXCEPT
                !.sent = Append(@, email.val @@ [at |-> now, reason |-> reason]),
                !.recent_alerts = DictSet(@, reason, IsoFormat(now)),
                !.alerts_triggered = TRUE,
                !.pc = next_pc]

\* ---- one iteration of the loop of lines 94-112
Dispatched(loc, alert, recipient, smtp_ok, now, next_pc) ==
    LET reason == Get(alert, "reason", <<>>)
        email == SendAlertEmail(
                    [subject |-> <<SUBJECT_PREFFIX,
                                   Get(alert, "subject", Text("No subject", <<>>))>>,
                     body |-> ComposeBody(loc.parsed, alert),
                     recipients |-> recipient],
                    smtp_ok)
    IN IF ~Sends(loc, alert) THEN [loc EXCEPT !.pc = next_pc]
       ELSE IF email.raised THEN CheckRaised(loc)
       ELSE [loc EXCEPT
                !.sent = Append(@, email.val @@ [at |-> now, reason |-> reason]),
                !.recent_alerts = DictSet(@, reason, IsoFormat(now)),
                !.alerts_triggered = TRUE,
                !.pc = next_pc]

\* variant: the ledger is returned whether or not an alert was triggered
ReturnedLogAlways(loc) ==
    IF loc.pc # "return" THEN loc
    ELSE [loc EXCEPT !.updated_alert_log = Some(loc.recent_alerts), !.pc = "persist"]

\* ---- line 114
ReturnedLog(loc) ==
    IF loc.pc # "return" THEN loc
    ELSE [loc EXCEPT
            !.updated_alert_log =
                IF loc.alerts_triggered THEN Some(loc.recent_alerts) ELSE NoneVal,
            !.pc = "persist"]

(***************************************************************************)
(* Actions                                                                 *)
(***************************************************************************)
MaxInvocations == 2
MaxRaceInvocations == 2
MaxFaults == 1

Local(w) == worker[w]

\* an outcome of the environment (storage, mail transport): failures are budgeted
Env(ok) ==
    /\ ok \/ faults < MaxFaults
    /\ faults' = IF ok THEN faults ELSE faults + 1

\* the wall clock advances to t
Tick(t) ==
    /\ t > clock
    /\ clock' = t
    /\ UNCHANGED <<store, started, faults, worker, dispatched, unsaved, blind, parserVars>>

\* the deduplicated send attempts a step adds to a worker's list
NewDispatches(w) ==
    {[coreid |-> Coreid(Local(w)), box_id |-> Get(Local(w).parsed, "box_id", <<>>),
      reason |-> worker'[w].sent[i].reason, at |-> worker'[w].sent[i].at] :
        i \in {j \in 1..Len(worker'[w].sent) :
                 j > Len(Local(w).sent) /\ Len(worker'[w].sent[j].reason) > 0}}

\* webhook_handler is invoked with request r (lines 26-46)
Receive(w, r, limit) ==
    /\ Local(w).pc \in {"idle"} \cup Ended
    /\ started < limit
    /\ started' = started + 1
    /\ worker' = [worker EXCEPT ![w] = Received(r, clock)]
    /\ UNCHANGED <<clock, store, faults, dispatched, unsaved, blind, parserVars>>

\* check_and_alert up to its early return (lines 48-87)
Evaluate(w) ==
    /\ Local(w).pc = "check"
    /\ worker' = [worker EXCEPT ![w] = Evaluated(Local(w), TRUE, clock)]
    /\ UNCHANGED <<clock, store, started, faults, dispatched, unsaved, blind, parserVars>>

\* get_recent_alerts (line 91)
Fetch(w, storage_ok) ==
    /\ Local(w).pc = "fetch"
    /\ Env(storage_ok)
    /\ worker' = [worker EXCEPT
                    ![w] = Fetched(Local(w), store[BlobPath(Coreid(Local(w)))],
                                   storage_ok, clock)]
    /\ blind' = IF storage_ok THEN blind ELSE blind \cup {Coreid(Local(w))}
    /\ UNCHANGED <<clock, store, started, dispatched, unsaved, parserVars>>

\* the deploy-track iteration of the loop (lines 94-112)
Deploy(w, smtp_ok) ==
    /\ Local(w).pc = "deploy"
    /\ IF Sends(Local(w), Local(w).deploy_alert)
       THEN Env(smtp_ok)
       ELSE smtp_ok /\ UNCHANGED faults
    /\ worker' = [worker EXCEPT
                    ![w] = Dispatched(Local(w), Local(w).deploy_alert,
                                      EMAIL_RECIPIENT_DEPLOY, smtp_ok, clock, "develop")]
    /\ dispatched' = dispatched \cup NewDispatches(w)
    /\ UNCHANGED <<clock, store, started, unsaved, blind, parserVars>>

\* the develop-track iteration of the loop, and the return (lines 94-114)
Develop(w, smtp_ok) ==
    /\ Local(w).pc = "develop"
    /\ IF Sends(Local(w), Local(w).develop_alert)
       THEN Env(smtp_ok)
       ELSE smtp_ok /\ UNCHANGED faults
    /\ worker' = [worker EXCEPT
                    ![w] = ReturnedLog(
                              Dispatched(Local(w), Local(w).develop_alert,
                                         EMAIL_RECIPIENT_DEVELOP, smtp_ok, clock, "return"))]
    /\ dispatched' = dispatched \cup NewDispatches(w)
    /\ UNCHANGED <<clock, store, started, unsaved, blind, parserVars>>

\* webhook_handler lines 56-61: persist the ledger check_and_alert returned
Persist(w, storage_ok) ==
    LET loc == Local(w)
        log == loc.updated_alert_log
        coreid == Get(loc.parsed, "coreid", StrNoCoreid)
        upload == UploadAlertLog(log.val, store[BlobPath(coreid)], storage_ok)
    IN /\ loc.pc = "persist"
       /\ IF log.py = "unbound"
          THEN \* UnboundLocalError: the handler ends without a response
               /\ storage_ok /\ UNCHANGED <<store, faults, unsaved>>
               /\ worker' = [worker EXCEPT ![w].pc = "crashed"]
          ELSE IF log.py = "value" /\ Len(log.val) > 0
          THEN /\ Env(storage_ok)
               /\ IF upload.raised
                  THEN /\ UNCHANGED store
                       /\ unsaved' = unsaved \cup {coreid}
                       /\ worker' = [worker EXCEPT ![w].persist = "failed",
                                                   ![w].pc = "upload"]
                  ELSE /\ store' = [store EXCEPT ![BlobPath(coreid)] = upload.val]
                       /\ UNCHANGED unsaved
                       /\ worker' = [worker EXCEPT ![w].persist = "ok",
                                                   ![w].pc = "upload"]
          ELSE /\ storage_ok /\ UNCHANGED <<store, faults, unsaved>>
               /\ worker' = [worker EXCEPT ![w].persist = "skipped",
                                           ![w].pc = "upload"]
       /\ UNCHANGED <<clock, started, dispatched, blind, parserVars>>

\* webhook_handler lines 63-77: store the record and answer
Upload(w, storage_ok) ==
    /\ Local(w).pc = "upload"
    /\ Env(storage_ok)
    /\ worker' = [worker EXCEPT
                    ![w].blob_attempted = TRUE,
                    ![w].uploaded = IF storage_ok THEN GetBlobFolder(Local(w).parsed)
                                    ELSE <<>>,
                    ![w].status = IF storage_ok THEN 200 ELSE 500,
                    ![w].pc = "done"]
    /\ UNCHANGED <<clock, store, started, dispatched, unsaved, blind, parserVars>>

\* the host ends the invocation while check_and_alert runs or before
\* upload_alert_log is called (function_app.py lines 50-59): no response, no
\* write; the reasons it had dispatched are recorded nowhere
Abort(w) ==
    /\ Local(w).pc \in {"check", "fetch", "deploy", "develop", "persist"}
    /\ worker' = [worker EXCEPT ![w].pc = "crashed"]
    /\ unsaved' = IF Local(w).alerts_triggered
                  THEN unsaved \cup {Coreid(Local(w))} ELSE unsaved
    /\ UNCHANGED <<clock, store, started, faults, dispatched, blind, parserVars>>

HandlerInit ==
    /\ clock = StartTime
    /\ store = [c \in CoreIds |-> MissingBlob]
    /\ started = 0
    /\ faults = 0
    /\ worker = [w \in Workers |-> Fresh]
    /\ dispatched = {}
    /\ unsaved = {}
    /\ blind = {}

(***************************************************************************)
(* The parser on its own: inputs built from tokens, parsed at some clock   *)
(***************************************************************************)
MaxReadings == 7

Dig(i) == CHOOSE c \in DigitChars : DigitVal[c] = i

\* the i-th reading token: "01", "02", ...
ReadingTok(i) == <<Dig((i \div 10) % 10), Dig(i % 10)>>

RECURSIVE JoinComma(_)
JoinComma(toks) ==
    IF Len(toks) = 0 THEN <<>>
    ELSE IF Len(toks) = 1 THEN toks[1]
    ELSE toks[1] \o <<",">> \o JoinComma(Tail(toks))

ReadingVariants == {"plain", "emptyLast", "alphaLast", "spaced"}

ReadingToks(n, variant) ==
    [i \in 1..n |->
        IF i = n /\ variant = "emptyLast" THEN <<>>
        ELSE IF i = n /\ variant = "alphaLast" THEN <<"x">>
        ELSE IF variant = "spaced" THEN <<" ">> \o ReadingTok(i) \o <<" ", "\t">>
        ELSE ReadingTok(i)]

BoxToks == {<<"B", "O", "X", "1">>, <<>>}

DateToks ==
    {<<<<"0", "1">>, <<"0", "1">>, <<"0", "9">>, <<"0", "0">>>>,
     <<<<"1", "3">>, <<"0", "1">>, <<"0", "9">>, <<"0", "0">>>>,
     <<<<"1", "2">>, <<"3", "1">>, <<"2", "3">>, <<"5", "9">>>>,
     <<<<"0", "2">>, <<"2", "9">>, <<"0", "9">>, <<"0", "0">>>>,
     <<<<"0", "1">>, <<>>, <<"0", "9">>, <<"0", "0">>>>}

LeadToks == {<<>>, <<",">>, <<" ", ",">>}

EnvInput(lead, box, date, readings) ==
    [val |-> PyStr(lead \o JoinComma(<<box>> \o date \o readings)),
     shape |-> "env", lead |-> lead, box |-> box, date |-> date,
     readings |-> readings, tail |-> <<>>]

EnvInputs ==
    {EnvInput(lead, box, date, ReadingToks(n, v)) :
        lead \in LeadToks, box \in BoxToks, date \in DateToks,
        n \in 0..MaxReadings, v \in ReadingVariants}

Date6Toks ==
    {<<"2", "5", "0", "1", "0", "1">>, <<"2", "5", "1", "3", "0", "1">>,
     <<"2", "5", "0", "2", "3", "0">>, <<"2", "4", "0", "2", "2", "9">>}

HourToks == {<<"9">>, <<"0", "9">>, <<"2", "4">>}
MinuteToks == {<<"0", "0">>, <<"6", "0">>}

\* a startup message followed by eight numeric comma-separated tokens
SetupDoneThenTokens ==
    SetupDone \o <<",", "0", "1", ",", "0", "1", ",", "0", "9", ",", "0", "0", ",",
                   "2", "0", ",", "5", "0", ",", "5", ",", "2", "1">>

MsgTails ==
    {SetupDone, SetupDone \o <<" ", "o", "k">>, SetupDoneThenTokens,
     <<" ", "E", "7">>, <<" ", "E">>,
     <<" ", " ", "E", "1", "7", "\n">>, <<" ", "E", "7", "x">>, <<>>}

MsgInput(box, date6, hour, minute, tail) ==
    [val |-> PyStr(box \o date6 \o <<" ">> \o hour \o <<":">> \o minute \o tail),
     shape |-> "msg", lead |-> <<>>, box |-> box, date |-> <<date6, hour, minute>>,
     readings |-> <<>>, tail |-> tail]

MsgInputs ==
    {MsgInput(box, date6, hour, minute, tail) :
        box \in BoxToks, date6 \in Date6Toks, hour \in HourToks,
        minute \in MinuteToks, tail \in MsgTails}

MiscInput(val) ==
    [val |-> val, shape |-> "misc", lead |-> <<>>, box |-> <<>>, date |-> <<>>,
     readings |-> <<>>, tail |-> <<>>]

MiscInputs ==
    {MiscInput(v) :
        v \in {PyNone, PyStr(<<>>), PyOther(FALSE), PyOther(TRUE),
               PyStr(<<" ", "\n">>), PyStr(<<"h", "e", "l", "l", "o">>),
               PyStr(<<",", ",", ",">>)}}

ParserInputs == EnvInputs \cup MsgInputs \cup MiscInputs

ParserClocks ==
    {ToMinutes(2025, 1, 15, 12, 0), ToMinutes(2024, 12, 15, 12, 0),
     ToMinutes(2024, 2, 10, 8, 30)}

NotParsed == Raised("not parsed yet")
NoCall == [at |-> 0, out |-> NotParsed]

ParserInit ==
    /\ praw \in ParserInputs
    /\ pclock \in ParserClocks
    /\ presult = NotParsed
    /\ ppc = "input"
    /\ pprev = NoCall
    /\ HandlerInit

\* one call of parse_payload_data
Parse ==
    /\ ppc = "input"
    /\ presult' = ParsePayloadData(praw.val, pclock)
    /\ ppc' = "parsed"
    /\ UNCHANGED <<praw, pclock, pprev>>
    /\ UNCHANGED handlerVars

\* a second call of parse_payload_data on the same value, when the clock reads t
Reparse(t) ==
    /\ ppc = "parsed"
    /\ t # pclock
    /\ pprev' = [at |-> pclock, out |-> presult]
    /\ pclock' = t
    /\ presult' = ParsePayloadData(praw.val, t)
    /\ ppc' = "reparsed"
    /\ UNCHANGED praw
    /\ UNCHANGED handlerVars

ParserNext ==
    \/ Parse
    \/ \E t \in ParserClocks : Reparse(t)

ParserSpec == ParserInit /\ [][ParserNext]_vars

(***************************************************************************)
(* The webhook.  Spec: one worker serves the requests one after the other. *)
(* RaceSpec: two workers serve requests for the same devices concurrently. *)
(***************************************************************************)
Init ==
    /\ HandlerInit
    /\ praw = MiscInput(PyNone)
    /\ pclock = StartTime
    /\ presult = NotParsed
    /\ ppc = "off"
    /\ pprev = NoCall

Next ==
    \/ \E t \in ClockValues : Tick(t)
    \/ \E r \in Requests : Receive("w1", r, MaxInvocations)
    \/ Evaluate("w1")
    \/ \E ok \in BOOLEAN : Fetch("w1", ok)
    \/ \E ok \in BOOLEAN : Deploy("w1", ok)
    \/ \E ok \in BOOLEAN : Develop("w1", ok)
    \/ \E ok \in BOOLEAN : Persist("w1", ok)
    \/ \E ok \in BOOLEAN : Upload("w1", ok)

Spec == Init /\ [][Next]_vars

RaceRequests ==
    {Request("object", DataError, PublishedLate, <<"A">>),
     Request("object", DataErrorMalformed, PublishedLate, <<"A">>),
     Request("object", DataUnknown, EmptyText, <<"A">>),
     Request("object", DataUnknown, EmptyText, <<>>)}

\* storage and mail work throughout
RaceNext ==
    \/ \E t \in ClockValues : Tick(t)
    \/ \E w \in Workers, r \in RaceRequests : Receive(w, r, MaxRaceInvocations)
    \/ \E w \in Workers : Evaluate(w)
    \/ \E w \in Workers : Fetch(w, TRUE)
    \/ \E w \in Workers : Deploy(w, TRUE)
    \/ \E w \in Workers : Develop(w, TRUE)
    \/ \E w \in Workers : Persist(w, TRUE)
    \/ \E w \in Workers : Upload(w, TRUE)

RaceSpec == Init /\ [][RaceNext]_vars

(***************************************************************************)
(* AbortSpec: one worker serves the requests one after the other, storage  *)
(* and mail work, and the host may end an invocation before it persists.   *)
(***************************************************************************)
AbortRequests ==
    {Request("object", DataError, PublishedLate, <<"A">>),
     Request("object", DataErrorMalformed, PublishedLate, <<"A">>),
     Request("object", DataUnknown, EmptyText, <<>>)}

AbortNext ==
    \/ \E t \in ClockValues : Tick(t)
    \/ \E r \in AbortRequests : Receive("w1", r, MaxInvocations)
    \/ Evaluate("w1")
    \/ Fetch("w1", TRUE)
    \/ Deploy("w1", TRUE)
    \/ Develop("w1", TRUE)
    \/ Persist("w1", TRUE)
    \/ Upload("w1", TRUE)
    \/ Abort("w1")

AbortSpec == Init /\ [][AbortNext]_vars

(***************************************************************************)
(* RecurSpec: the same error keeps arriving for device A, with and without *)
(* a malformed date; one worker, storage and mail work.                    *)
(***************************************************************************)
MaxRecurring == 3

RecurRequests ==
    {Request("object", DataError, PublishedLate, <<"A">>),
     Request("object", DataErrorMalformed, PublishedLate, <<"A">>)}

RecurNext ==
    \/ \E t \in ClockValues : Tick(t)
    \/ \E r \in RecurRequests : Receive("w1", r, MaxRecurring)
    \/ Evaluate("w1")
    \/ Fetch("w1", TRUE)
    \/ Deploy("w1", TRUE)
    \/ Develop("w1", TRUE)
    \/ Persist("w1", TRUE)
    \/ Upload("w1", TRUE)

RecurSpec == Init /\ [][RecurNext]_vars

(***************************************************************************)
(* LedgerSpec: one invocation for device A finds a ledger blob that was    *)
(* written before, by this program or by hand; storage and mail work.      *)
(***************************************************************************)
MaxStored == 2

\* the timestamp values of a stored entry: written less than the window ago,
\* exactly the window ago, with a Z suffix, without an offset, not a date, the
\* empty text, and a JSON value that is not a string
StoredTimestamps ==
    {IsoFormat(StartTime - ALERT_EXPIRATION_MINUTES + 1),
     IsoFormat(StartTime - ALERT_EXPIRATION_MINUTES),
     IsoText("zulu", StartTime - 1), IsoText("naive", StartTime - 1),
     IsoText("garbage", 0), EmptyText, IsoText("nonstr", 0)}

StoredReasonKeys == {<<"E", "7">>, StrLatency, <<>>}

\* the JSON objects of up to MaxStored entries, keys distinct
StoredLedgers ==
    {s \in UNION {[1..n -> StoredReasonKeys \X StoredTimestamps] : n \in 0..MaxStored} :
        \A i, j \in DOMAIN s : i < j => s[i][1] # s[j][1]}

\* the values of published_at: 31 and 30 minutes after the device timestamp,
\* 31 minutes after with a Z suffix or without an offset, not a date, a JSON
\* value that is not a string, and none
PublishedValues ==
    {PublishedLate, PublishedEdge, IsoText("zulu", PublishedLate.t),
     IsoText("naive", PublishedLate.t), IsoText("garbage", 0), IsoText("nonstr", 0),
     EmptyText}

LedgerRequests ==
    {Request("object", DataError, PublishedLate, <<"A">>),
     Request("object", DataUnknown, EmptyText, <<"A">>)}
        \cup {Request("object", DataEnvironment, p, <<"A">>) : p \in PublishedValues}

LedgerInit ==
    /\ clock = StartTime
    /\ \E s \in StoredLedgers :
          store = [c \in CoreIds |-> IF c = <<"A">> THEN LedgerBlob(s) ELSE MissingBlob]
    /\ started = 0
    /\ faults = 0
    /\ worker = [w \in Workers |-> Fresh]
    /\ dispatched = {}
    /\ unsaved = {}
    /\ blind = {}
    /\ praw = MiscInput(PyNone)
    /\ pclock = StartTime
    /\ presult = NotParsed
    /\ ppc = "off"
    /\ pprev = NoCall

LedgerNext ==
    \/ \E r \in LedgerRequests : Receive("w1", r, 1)
    \/ Evaluate("w1")
    \/ Fetch("w1", TRUE)
    \/ Deploy("w1", TRUE)
    \/ Develop("w1", TRUE)
    \/ Persist("w1", TRUE)
    \/ Upload("w1", TRUE)

LedgerSpec == LedgerInit /\ [][LedgerNext]_vars

(***************************************************************************)
(* Claims about the parser (checked under ParserSpec)                      *)
(***************************************************************************)
DataTypes == {"environment", "error", "startup", "unknown", "invalid"}
RecognizedTypes == {"environment", "error", "startup"}
StructuralKeys == {"box_id", "timestamp", "readings", "error_code", "malformed"}

Parsed == ppc = "parsed"
PRec == presult.val

IsMalformed(rec) == Has(rec, "malformed") /\ rec.malformed = TRUE

\* C5: parse_payload_data never raises and returns a record whose datatype is one
\* of the five; an absent, empty or non-string input gives datatype invalid with no
\* structural field; a recognized shape whose validation failed comes back with
\* malformed = TRUE and a parsing_error text (and otherwise with its timestamp).
C5_ParserTotal ==
    Parsed =>
        /\ ~presult.raised
        /\ Has(PRec, "datatype") /\ PRec.datatype \in DataTypes
        /\ (praw.val.kind # "str" \/ Len(praw.val.s) = 0) =>
              /\ PRec.datatype = "invalid"
              /\ DOMAIN PRec \cap (StructuralKeys \cup {"parsing_error"}) = {}
        /\ PRec.datatype \in RecognizedTypes =>
              \/ Has(PRec, "timestamp") /\ ~Has(PRec, "malformed")
              \/ IsMalformed(PRec) /\ Has(PRec, "parsing_error")
                    /\ ~Has(PRec, "timestamp")
        /\ Has(PRec, "malformed") => IsMalformed(PRec) /\ Has(PRec, "parsing_error")

\* C5 witness: an int() failure inside the environment validation was caught
C5_Witness ==
    /\ Parsed /\ ~presult.raised
    /\ praw.shape = "env" /\ Len(praw.readings) = 6
    /\ PRec.datatype = "environment" /\ IsMalformed(PRec)
    /\ PRec.parsing_error = "invalid literal for int() with base 10"

\* ---- environment inputs, described by the tokens they were built from
StrippedToks(toks) == [i \in 1..Len(toks) |-> Strip(toks[i])]
IntToks(toks) == \A i \in 1..Len(toks) : Len(Strip(toks[i])) > 0 /\ AllDigits(Strip(toks[i]))
DigitOrEmptyToks(toks) == \A i \in 1..Len(toks) : AllDigits(Strip(toks[i]))

\* the year the parser gives a reading of month m parsed when the clock reads now
InferredYear(now, m) ==
    IF MonthOf(now) = 1 /\ m = 12 THEN YearOf(now) - 1
    ELSE IF MonthOf(now) = 12 /\ m = 1 THEN YearOf(now) + 1
    ELSE YearOf(now)

ValidDateToks(date, now) ==
    /\ Len(date) = 4 /\ IntToks(date)
    /\ LET m == IntOf(date[1]) d == IntOf(date[2])
       IN /\ m \in 1..12
          /\ d \in 1..DaysInMonth(InferredYear(now, m), m)
          /\ IntOf(date[3]) \in 0..23
          /\ IntOf(date[4]) \in 0..59

CommaLedEnv == Parsed /\ praw.shape = "env" /\ praw.lead = <<",">>

\* the triples of the reading tokens, in input order
ExpectedTriples(readings) ==
    [j \in 1..(Len(readings) \div 3) |->
        [T |-> IntOf(Strip(readings[3 * j - 2])),
         RH |-> IntOf(Strip(readings[3 * j - 1])),
         Noise |-> IntOf(Strip(readings[3 * j]))]]

GroupedAsEnvironment ==
    /\ ~presult.raised
    /\ PRec.datatype = "environment" /\ ~Has(PRec, "malformed")
    /\ Has(PRec, "box_id") /\ PRec.box_id = Strip(praw.box)
    /\ Has(PRec, "readings")
    /\ Len(PRec.readings) = ((1 + Len(praw.date) + Len(praw.readings)) - 5) \div 3
    /\ PRec.readings = ExpectedTriples(praw.readings)

\* C6 as stated: every comma-led input with valid date tokens and a positive
\* multiple of 3 of integer reading tokens, a single triple included, is grouped
\* as an environment record.
C6_AsStated ==
    (/\ CommaLedEnv /\ ValidDateToks(praw.date, pclock)
     /\ IntToks(praw.readings)
     /\ Len(praw.readings) > 0 /\ Len(praw.readings) % 3 = 0)
        => GroupedAsEnvironment

\* C6 amended: the same for inputs of at least 9 tokens (two triples or more);
\* a single triple has 8 tokens and is classified unknown.
C6_Grouping ==
    (/\ CommaLedEnv /\ ValidDateToks(praw.date, pclock)
     /\ IntToks(praw.readings)
     /\ Len(praw.readings) >= 6 /\ Len(praw.readings) % 3 = 0)
        => GroupedAsEnvironment

C6_Witness ==
    /\ CommaLedEnv /\ ValidDateToks(praw.date, pclock)
    /\ IntToks(praw.readings) /\ Len(praw.readings) = 6
    /\ ~presult.raised /\ PRec.datatype = "environment"
    /\ Len(PRec.readings) = 2
    /\ PRec.readings[2] = [T |-> 4, RH |-> 5, Noise |-> 6]

MalformedEnvironment ==
    /\ ~presult.raised
    /\ PRec.datatype = "environment" /\ IsMalformed(PRec)
    /\ Has(PRec, "box_id") /\ PRec.box_id = Strip(praw.box)
    /\ ~Has(PRec, "readings")

\* C7 as stated: every comma-led input with four date/time tokens and a number of
\* reading tokens that is not a multiple of 3, two readings included, comes back as
\* environment with malformed = TRUE, box_id set and no readings.
C7_AsStated ==
    (/\ CommaLedEnv /\ Len(praw.date) = 4
     /\ DigitOrEmptyToks(praw.date) /\ DigitOrEmptyToks(praw.readings)
     /\ Len(praw.readings) % 3 # 0)
        => MalformedEnvironment

\* C7 amended: the same for inputs of at least 9 tokens (4 reading tokens or more);
\* with 1 or 2 reading tokens the input is classified unknown.
C7_NotDivisible ==
    (/\ CommaLedEnv /\ Len(praw.date) = 4
     /\ DigitOrEmptyToks(praw.date) /\ DigitOrEmptyToks(praw.readings)
     /\ Len(praw.readings) >= 4 /\ Len(praw.readings) % 3 # 0)
        => MalformedEnvironment

C7_Witness ==
    /\ CommaLedEnv /\ ValidDateToks(praw.date, pclock)
    /\ IntToks(praw.readings) /\ Len(praw.readings) = 4
    /\ ~presult.raised /\ PRec.datatype = "environment" /\ IsMalformed(PRec)
    /\ PRec.parsing_error =
         "Invalid environment format: number of readings non divisible by 3 (T, RH, Noise)"

(***************************************************************************)
(* Claims about the alert evaluator and the handler                        *)
(***************************************************************************)
\* the deduplicated send attempts of an invocation (the no-coreid notice has no reason)
DedupSends(loc) == {i \in 1..Len(loc.sent) : Len(loc.sent[i].reason) > 0}

\* check_and_alert has run its deploy-track iteration / has returned
AfterDeploy(loc) == loc.fetched.done /\ loc.pc \in {"develop", "persist", "upload", "done"}
HasReturned(loc) ==
    loc.valid_json /\ ~loc.check_raised /\ loc.pc \in {"persist", "upload", "done"}

\* the candidate of the loop iteration worker w is about to run
TrackAlert(loc) == IF loc.pc = "deploy" THEN loc.deploy_alert ELSE loc.develop_alert

\* worker w runs one iteration of the dispatch loop in this step
LoopStep(w) == worker[w].pc \in {"deploy", "develop"} /\ worker'[w].pc # worker[w].pc

PriorDispatches(coreid, reason) ==
    {d \in dispatched : d.coreid = coreid /\ d.reason = reason}

\* an iteration for a candidate dispatches exactly when no earlier dispatch for
\* the device and reason lies less than the expiration window before the fetch
WindowRule(w) ==
    LET loc == worker[w]
        alert == TrackAlert(loc)
    IN (Len(worker'[w].sent) > Len(loc.sent))
           <=> \A d \in PriorDispatches(Coreid(loc), alert.reason) :
                   loc.fetched.at - d.at >= ALERT_EXPIRATION_MINUTES

\* C1 as stated: over sequential invocations whose returned ledger is persisted,
\* a reason dispatched at t is not dispatched again by an evaluation less than
\* ALERT_EXPIRATION_MINUTES after t, and is dispatched again by the first
\* evaluation after the window has elapsed.
C1_AsStated ==
    [][\A w \in Workers :
          (LoopStep(w) /\ IsDict(TrackAlert(worker[w]))
               /\ Coreid(worker[w]) \notin unsaved)
              => WindowRule(w)]_vars

\* C1: the deduplication window holds over sequential invocations whose returned
\* ledger is persisted and whose ledger fetches all succeed: a candidate is
\* dispatched iff no dispatch for the same device and reason happened less than
\* ALERT_EXPIRATION_MINUTES before the evaluation's fetch.
C1_DedupWindow ==
    [][\A w \in Workers :
          (LoopStep(w) /\ IsDict(TrackAlert(worker[w]))
               /\ Coreid(worker[w]) \notin (unsaved \cup blind))
              => WindowRule(w)]_vars

\* a reason dispatched, persisted, and dispatched again once the window elapsed
C1_Witness ==
    /\ worker["w1"].pc = "done"
    /\ \E d1 \in dispatched, d2 \in dispatched :
          /\ d1.coreid = d2.coreid /\ d1.reason = d2.reason
          /\ d2.at - d1.at >= ALERT_EXPIRATION_MINUTES
          /\ d1.coreid \notin (unsaved \cup blind)
          /\ Coreid(worker["w1"]) = d2.coreid
          /\ \E i \in DedupSends(worker["w1"]) :
                /\ worker["w1"].sent[i].reason = d2.reason
                /\ worker["w1"].sent[i].at = d2.at

\* C2: two overlapping invocations for one coreid are not excluded from each
\* other on the ledger, and a successful persist leaves exactly the ledger the
\* writer returned as the stored object, whatever was stored before: the last
\* writer wins and entries only the earlier writer had are gone.
C2_LastWriterWins ==
    [][\A w \in Workers :
          (worker[w].pc = "persist" /\ worker'[w].pc = "upload"
               /\ worker'[w].persist = "ok")
              => /\ store'[Coreid(worker[w])]
                      = LedgerBlob(worker[w].updated_alert_log.val)
                 /\ Keys(store'[Coreid(worker[w])].alerts)
                      = Keys(worker[w].recent_alerts)]_vars

\* both invocations fetched an empty ledger, both dispatched E7 inside the window,
\* both persisted, and the malformed entry only w1 recorded is not in the store
C2_Witness ==
    LET a == worker["w1"]
        b == worker["w2"]
        E7 == <<"E", "7">>
    IN /\ a.persist = "ok" /\ b.persist = "ok"
       /\ Coreid(a) = Coreid(b)
       /\ a.fetched.done /\ b.fetched.done
       /\ a.fetched.ledger = <<>> /\ b.fetched.ledger = <<>>
       /\ \E i \in DedupSends(a), j \in DedupSends(b) :
             /\ a.sent[i].reason = E7 /\ b.sent[j].reason = E7
             /\ a.sent[i].at - b.sent[j].at < ALERT_EXPIRATION_MINUTES
             /\ b.sent[j].at - a.sent[i].at < ALERT_EXPIRATION_MINUTES
       /\ StrMalformed \in Keys(a.updated_alert_log.val)
       /\ store[Coreid(a)].exists
       /\ StrMalformed \notin Keys(store[Coreid(a)].alerts)

\* the record is an error message published more than the threshold after its timestamp
HighLatencyError(loc) ==
    /\ IsDict(loc.parsed)
    /\ loc.parsed.datatype = "error"
    /\ Has(loc.parsed, "timestamp") /\ Truthy(loc.parsed.timestamp)
    /\ Truthy(loc.parsed.published_at)
    /\ ~LatencyMinutes(loc.parsed).raised
    /\ LatencyMinutes(loc.parsed).val > MAX_LATENCY_MINUTES

DeploySends(loc) ==
    {i \in 1..Len(loc.sent) : loc.sent[i].to = EMAIL_RECIPIENT_DEPLOY}

\* C3: for an error record with high latency whose error code is not in the
\* fetched ledger, the evaluation sends exactly one deploy-track email, whose
\* body has the error summary followed by the latency summary; no email is sent
\* for the reason latency, and the ledger gains the error code but not latency.
C3_ErrorOverLatency ==
    \A w \in Workers :
        LET loc == worker[w]
        IN (/\ HighLatencyError(loc) /\ AfterDeploy(loc)
            /\ loc.parsed.error_code \notin Keys(loc.fetched.ledger))
           => /\ Cardinality(DeploySends(loc)) = 1
              /\ \A i \in DeploySends(loc) :
                    /\ loc.sent[i].reason = loc.parsed.error_code
                    /\ Len(loc.sent[i].body.summary) = 2
                    /\ loc.sent[i].body.summary[1].text
                          = "Error {error_code} detected in Box {box_id}"
                    /\ loc.sent[i].body.summary[2].text
                          = "High transmission latency: {latency_minutes} minutes (threshold: 30m)."
                    /\ loc.sent[i].body.summary[2].args
                          = <<LatencyMinutes(loc.parsed).val>>
              /\ \A i \in 1..Len(loc.sent) : loc.sent[i].reason # StrLatency
              /\ loc.parsed.error_code \in Keys(loc.recent_alerts)
              /\ StrLatency \in Keys(loc.recent_alerts)
                    => StrLatency \in Keys(loc.fetched.ledger)

C3_Witness ==
    LET loc == worker["w1"]
    IN /\ loc.pc = "done" /\ HighLatencyError(loc) /\ loc.fetched.done
       /\ loc.parsed.error_code \notin Keys(loc.fetched.ledger)
       /\ Cardinality(DeploySends(loc)) = 1
       /\ \A i \in DeploySends(loc) : Len(loc.sent[i].body.summary) = 2

\* neither track produced a candidate for the record
NoCandidate(loc) == ~IsDict(DeployAlert(loc.parsed)) /\ ~IsDict(DevelopAlert(loc.parsed))

\* what holds of one invocation for C4
ReturnsLedgerIffDispatched(loc) ==
    /\ HasReturned(loc) =>
          /\ loc.updated_alert_log.py \in {"value", "None"}
          /\ loc.updated_alert_log.py = "value" <=> DedupSends(loc) # {}
          /\ loc.updated_alert_log.py = "value" =>
                loc.updated_alert_log.val = loc.recent_alerts
    /\ (IsDict(loc.parsed) /\ loc.pc \notin {"idle", "check"} /\ NoCandidate(loc)) =>
          ~loc.fetched.done /\ loc.sent = <<>>
    /\ loc.persist \in {"ok", "failed"} =>
          loc.updated_alert_log.py = "value" /\ DedupSends(loc) # {}

\* C4: check_and_alert returns the updated ledger iff a deduplicated dispatch
\* happened in the evaluation and returns None otherwise; without a candidate it
\* neither fetches the ledger nor dispatches; upload_alert_log is called only
\* with a returned ledger, so the stored ledger changes only in the persist step
\* of an invocation that dispatched.
C4_ReturnAndPersist ==
    /\ [](\A w \in Workers : ReturnsLedgerIffDispatched(worker[w]))
    /\ [][store' # store =>
            \E w \in Workers :
                /\ worker[w].pc = "persist"
                /\ DedupSends(worker[w]) # {}
                /\ store' = [store EXCEPT
                                ![Coreid(worker[w])] =
                                    LedgerBlob(worker[w].updated_alert_log.val)]]_vars

\* an evaluation whose candidate was suppressed: the ledger was fetched, nothing
\* was dispatched, None was returned and upload_alert_log was not called
C4_Witness ==
    LET loc == worker["w1"]
    IN /\ loc.pc = "done" /\ loc.fetched.done
       /\ IsDict(loc.deploy_alert) \/ IsDict(loc.develop_alert)
       /\ loc.sent = <<>>
       /\ loc.updated_alert_log.py = "None"
       /\ loc.persist = "skipped"
       /\ store[Coreid(loc)].exists

\* the deduplicated send attempts whose delivery failed
FailedSends(loc) == {i \in DedupSends(loc) : ~loc.sent[i].delivered}

\* C8: a failed delivery does not make check_and_alert raise; the reason is still
\* recorded with the time of the attempt and the ledger marked dirty, the
\* candidate of the other track is still attempted, and the updated ledger is
\* still returned.
C8_SendFailureIsolated ==
    \A w \in Workers :
        LET loc == worker[w]
        IN \A i \in FailedSends(loc) :
              /\ ~loc.check_raised /\ loc.pc # "crashed"
              /\ loc.alerts_triggered
              /\ loc.sent[i].reason \in Keys(loc.recent_alerts)
              /\ Lookup(loc.recent_alerts, loc.sent[i].reason) = IsoFormat(loc.sent[i].at)
              /\ loc.pc \in {"persist", "upload", "done"} =>
                    /\ loc.updated_alert_log.py = "value"
                    /\ loc.updated_alert_log.val = loc.recent_alerts
                    /\ (/\ loc.sent[i].to = EMAIL_RECIPIENT_DEPLOY
                        /\ IsDict(loc.develop_alert)
                        /\ loc.develop_alert.reason \notin Keys(loc.fetched.ledger))
                       => \E j \in DedupSends(loc) :
                             /\ j > i
                             /\ loc.sent[j].to = EMAIL_RECIPIENT_DEVELOP
                             /\ loc.sent[j].reason = loc.develop_alert.reason

\* the deploy-track delivery failed, the develop-track email was sent after it,
\* and the ledger with both reasons was returned and persisted
C8_Witness ==
    LET loc == worker["w1"]
    IN /\ loc.pc = "done" /\ loc.persist = "ok"
       /\ Len(loc.sent) = 2
       /\ ~loc.sent[1].delivered /\ loc.sent[1].to = EMAIL_RECIPIENT_DEPLOY
       /\ loc.sent[2].delivered /\ loc.sent[2].to = EMAIL_RECIPIENT_DEVELOP
       /\ Keys(store[Coreid(loc)].alerts) = {loc.sent[1].reason, loc.sent[2].reason}

\* the fetch of the invocation met a storage or decoding error, or no ledger object
FailedOpen(loc) == loc.fetched.done /\ (~loc.fetched.ok \/ ~loc.fetched.found)

\* C9: a storage or decoding error in get_recent_alerts, or a missing ledger
\* object, gives the empty ledger: the fetch does not raise, the evaluation goes
\* on, and every candidate of the evaluation is dispatched.
C9_FetchFailsOpen ==
    \A w \in Workers :
        LET loc == worker[w]
        IN FailedOpen(loc) =>
              /\ loc.fetched.ledger = <<>>
              /\ ~loc.check_raised /\ loc.pc # "crashed"
              /\ (AfterDeploy(loc) /\ IsDict(loc.deploy_alert)) =>
                    \E i \in DedupSends(loc) :
                        /\ loc.sent[i].to = EMAIL_RECIPIENT_DEPLOY
                        /\ loc.sent[i].reason = loc.deploy_alert.reason
              /\ (loc.pc \in {"persist", "upload", "done"} /\ IsDict(loc.develop_alert)) =>
                    \E i \in DedupSends(loc) :
                        /\ loc.sent[i].to = EMAIL_RECIPIENT_DEVELOP
                        /\ loc.sent[i].reason = loc.develop_alert.reason

\* the ledger held the reason, dispatched less than the window before, yet the
\* fetch met a read error and the reason was dispatched again
C9_Witness ==
    LET loc == worker["w1"]
    IN /\ loc.pc = "done" /\ loc.fetched.done /\ ~loc.fetched.ok /\ loc.fetched.found
       /\ Coreid(loc) \notin unsaved
       /\ \E i \in DedupSends(loc), d \in dispatched :
             /\ d.coreid = Coreid(loc) /\ d.reason = loc.sent[i].reason
             /\ d.at < loc.sent[i].at
             /\ loc.sent[i].at - d.at < ALERT_EXPIRATION_MINUTES

\* C10 as stated: every invocation that received valid JSON attempts
\* upload_to_blob after the alert evaluation, whether check_and_alert returned a
\* ledger, returned None or raised, and whether upload_alert_log succeeded or not.
C10_AsStated ==
    \A w \in Workers :
        (worker[w].valid_json /\ worker[w].pc \in Ended) => worker[w].blob_attempted

\* the no-coreid notices an invocation sent
Notices(loc) ==
    {i \in 1..Len(loc.sent) :
        Len(loc.sent[i].reason) = 0 /\ loc.sent[i].to = EMAIL_RECIPIENT_DEVELOP}

\* the record handed to check_and_alert has no coreid, or an empty one
CoreidMissing(loc) ==
    IsDict(loc.parsed) /\ (~Has(loc.parsed, "coreid") \/ Len(loc.parsed.coreid) = 0)

\* C11 as stated: every evaluation of a record whose coreid is missing or empty
\* sends a notice to the development recipient, and then goes on with the
\* deploy-track and develop-track checks.
C11_AsStated ==
    \A w \in Workers :
        (CoreidMissing(worker[w]) /\ worker[w].pc \notin {"idle", "check"})
            => Notices(worker[w]) # {} /\ ~worker[w].check_raised

DevelopSends(loc) ==
    {i \in 1..Len(loc.sent) :
        Len(loc.sent[i].reason) > 0 /\ loc.sent[i].to = EMAIL_RECIPIENT_DEVELOP}

\* what holds of the send attempts of one invocation for C12
OrderedSends(loc) ==
    /\ Cardinality(DeploySends(loc)) <= 1
    /\ Cardinality(DevelopSends(loc)) <= 1
    /\ DedupSends(loc) = DeploySends(loc) \cup DevelopSends(loc)
    /\ \A i \in DeploySends(loc), j \in DevelopSends(loc) :
          i < j /\ loc.sent[i].at <= loc.sent[j].at
    /\ \A i \in DedupSends(loc) :
          loc.fetched.done /\ loc.fetched.at <= loc.sent[i].at

\* C12: an evaluation attempts at most one deploy-track and at most one
\* develop-track deduplicated email; the deploy-track attempt and its ledger
\* entry come before the develop-track attempt; the ledger fetch is complete
\* before any deduplicated send is attempted.
C12_DispatchOrder ==
    /\ [](\A w \in Workers : OrderedSends(worker[w]))
    /\ [][\A w \in Workers :
            (Len(worker'[w].sent) > Len(worker[w].sent)
                 /\ Len(worker'[w].sent[Len(worker'[w].sent)].reason) > 0)
                => /\ Len(worker'[w].sent) = Len(worker[w].sent) + 1
                   /\ worker[w].fetched.done
                   /\ (/\ worker'[w].sent[Len(worker'[w].sent)].to = EMAIL_RECIPIENT_DEVELOP
                       /\ IsDict(worker[w].deploy_alert)
                       /\ worker[w].deploy_alert.reason \notin Keys(worker[w].fetched.ledger))
                      => /\ DeploySends(worker[w]) # {}
                         /\ worker[w].deploy_alert.reason \in Keys(worker[w].recent_alerts)]_vars

\* both tracks dispatched in one invocation: deploy first, then develop, and the
\* ledger holds the two reasons in that order
C12_Witness ==
    LET loc == worker["w1"]
    IN /\ loc.pc = "done" /\ loc.fetched.done
       /\ DeploySends(loc) = {1} /\ DevelopSends(loc) = {2}
       /\ Len(loc.recent_alerts) = 2
       /\ loc.recent_alerts[1][1] = loc.sent[1].reason
       /\ loc.recent_alerts[2][1] = loc.sent[2].reason

(***************************************************************************)
(* More claims about the parser (checked under ParserSpec)                 *)
(***************************************************************************)
\* the date and time tokens of a startup or error input are a real date and time
ValidMsgDate(date) ==
    LET y == 2000 + IntOf(SubSeq(date[1], 1, 2))
        m == IntOf(SubSeq(date[1], 3, 4))
        d == IntOf(SubSeq(date[1], 5, 6))
    IN /\ m \in 1..12
       /\ d \in 1..DaysInMonth(y, m)
       /\ IntOf(date[2]) \in 0..23
       /\ IntOf(date[3]) \in 0..59

\* C13: in every record parse_payload_data returns, readings is present only
\* for datatype environment and error_code only for datatype error; timestamp is
\* present only when the date and time were parsed, and never with malformed;
\* parsing_error is present exactly when malformed is TRUE; unknown and invalid
\* records have no box_id, timestamp, readings, error_code or malformed.
C13_FieldPresence ==
    Parsed =>
        /\ ~presult.raised
        /\ Has(PRec, "readings") => PRec.datatype = "environment"
        /\ Has(PRec, "error_code") => PRec.datatype = "error"
        /\ Has(PRec, "timestamp") =>
              /\ ~Has(PRec, "malformed")
              /\ PRec.datatype \in RecognizedTypes
              /\ praw.shape \in {"env", "msg"}
              /\ (praw.shape = "env" /\ Strip(praw.lead) = <<",">>) =>
                    ValidDateToks(praw.date, pclock)
              /\ praw.shape = "msg" => ValidMsgDate(praw.date)
        /\ Has(PRec, "malformed") => PRec.malformed = TRUE
        /\ Has(PRec, "parsing_error") <=> Has(PRec, "malformed")
        /\ PRec.datatype \in RecognizedTypes <=> Has(PRec, "box_id")
        /\ PRec.datatype \in {"unknown", "invalid"} =>
              DOMAIN PRec \cap StructuralKeys = {}

\* an error message whose date is out of range: error_code and box_id are kept,
\* malformed and parsing_error are set, timestamp and readings are absent
C13_Witness ==
    /\ Parsed /\ ~presult.raised
    /\ praw.shape = "msg" /\ ~ValidMsgDate(praw.date)
    /\ PRec.datatype = "error" /\ IsMalformed(PRec)
    /\ DOMAIN PRec \cap (StructuralKeys \cup {"parsing_error"})
          = {"box_id", "error_code", "malformed", "parsing_error"}

\* C14 as stated: the raw field of every record parse_payload_data returns is
\* the input exactly as received, character for character, whatever whitespace
\* the input has.
C14_AsStated ==
    Parsed => (~presult.raised /\ Has(PRec, "raw") /\ PRec.raw = praw.val)

\* the fields of a record other than raw, parsed_at and parser_version
StructuralPart(rec) ==
    [k \in DOMAIN rec \cap (StructuralKeys \cup {"datatype", "parsing_error"}) |-> rec[k]]

Reparsed == ppc = "reparsed"

SameStructure ==
    /\ ~presult.raised /\ ~pprev.out.raised
    /\ StructuralPart(presult.val) = StructuralPart(pprev.out.val)

\* the month token of an input that is tried as an environment message
MonthToken(raw) == EnvironmentParts(CollapseWs(Strip(raw.s)))[2]

\* the two calls give the month of the payload the same year
SameInferredYear(raw, t1, t2) ==
    \/ Len(MonthToken(raw)) = 0
    \/ InferredYear(t1, IntOf(MonthToken(raw))) = InferredYear(t2, IntOf(MonthToken(raw)))

\* C15 as stated: parsing the same raw string at any two wall-clock times gives
\* records identical in datatype, box_id, timestamp, readings, error_code,
\* malformed and parsing_error.
C15_AsStated == Reparsed => SameStructure

\* C15: the two records are identical in those fields when the record is not an
\* environment record, or when both wall-clock times give the payload's month
\* the same inferred year.
C15_Idempotent ==
    (/\ Reparsed
     /\ \/ presult.val.datatype # "environment"
        \/ SameInferredYear(praw.val, pprev.at, pclock))
        => SameStructure

\* an environment payload of January parsed in December 2024 and in January
\* 2025: both calls date it 2025
C15_Witness ==
    /\ Reparsed /\ SameStructure
    /\ presult.val.datatype = "environment"
    /\ Has(presult.val, "timestamp")
    /\ YearOf(pprev.at) # YearOf(pclock)
    /\ SameInferredYear(praw.val, pprev.at, pclock)
    /\ presult.val.parsed_at # pprev.out.val.parsed_at

(***************************************************************************)
(* More claims about the alert evaluator and the handler                   *)
(***************************************************************************)
\* the coreid and the box of the record an invocation handles
RecordCoreid(loc) == loc.parsed.coreid
RecordBox(loc) == Get(loc.parsed, "box_id", <<>>)

\* the step is taken by worker w
Acts(w) == worker'[w] # worker[w]

\* a step of an invocation leaves the ledgers of the other coreids as they are,
\* and a fetch returns entries of the ledger of the invocation's coreid only
OwnLedgerOnly(w) ==
    /\ (Acts(w) /\ IsDict(worker[w].parsed)) =>
          \A c \in CoreIds \ {RecordCoreid(worker[w])} : store'[c] = store[c]
    /\ (worker[w].pc = "fetch" /\ worker'[w].fetched.done) =>
          \A i \in 1..Len(worker'[w].fetched.ledger) :
              \E j \in 1..Len(store[RecordCoreid(worker[w])].alerts) :
                  worker'[w].fetched.ledger[i] = store[RecordCoreid(worker[w])].alerts[j]

\* C16 as stated: an invocation touches the ledger of its own device only, and a
\* candidate is suppressed only because of an earlier dispatch for the same
\* device (same coreid and same box), also when the payloads carry no coreid.
C16_AsStated ==
    [][\A w \in Workers :
          /\ OwnLedgerOnly(w)
          /\ (/\ LoopStep(w) /\ IsDict(TrackAlert(worker[w]))
              /\ Len(worker'[w].sent) = Len(worker[w].sent))
             => \E d \in dispatched :
                   /\ d.coreid = RecordCoreid(worker[w])
                   /\ d.box_id = RecordBox(worker[w])
                   /\ d.reason = TrackAlert(worker[w]).reason]_vars

\* C16: an invocation reads and changes only the ledger stored under its own
\* coreid value, a missing coreid being the empty coreid; a candidate is
\* suppressed only because of an earlier dispatch under the same coreid value,
\* so invocations with different coreid values do not affect each other, while
\* all payloads without coreid share one ledger.
C16_DeviceIndependence ==
    [][\A w \in Workers :
          /\ OwnLedgerOnly(w)
          /\ (/\ LoopStep(w) /\ IsDict(TrackAlert(worker[w]))
              /\ Len(worker'[w].sent) = Len(worker[w].sent))
             => \E d \in dispatched :
                   /\ d.coreid = RecordCoreid(worker[w])
                   /\ d.reason = TrackAlert(worker[w]).reason]_vars

\* E7 is dispatched for device A although the ledger of the payloads without
\* coreid holds E7 from a dispatch less than the window before
C16_Witness ==
    LET loc == worker["w1"]
    IN /\ loc.pc = "done" /\ IsDict(loc.parsed) /\ RecordCoreid(loc) = <<"A">>
       /\ \E i \in DedupSends(loc), d \in dispatched :
             /\ loc.sent[i].reason = <<"E", "7">>
             /\ d.coreid = <<>> /\ d.reason = <<"E", "7">>
             /\ loc.sent[i].at - d.at < ALERT_EXPIRATION_MINUTES
             /\ d.at <= loc.sent[i].at
       /\ store[<<>>].exists /\ <<"E", "7">> \in Keys(store[<<>>].alerts)
       /\ loc.fetched.ok /\ loc.fetched.ledger = <<>>


\* the reasons of the ledger stored for coreid c
StoredReasons(blob) == Keys(blob.alerts)

\* C17 as stated: persisting never removes an entry from a stored ledger, so a
\* reason once stored for a device stays in the stored object.
C17_AsStated ==
    [][\A c \in CoreIds : StoredReasons(store[c]) \subseteq StoredReasons(store'[c])]_vars

\* C17: a persist replaces the stored ledger by the ledger the evaluation
\* returned, which is the entries its fetch returned (non-expired at the fetch,
\* none when the fetch failed) with the reasons it dispatched set to the time of
\* dispatch; stored entries the fetch left out are removed from the stored
\* object by the persist, and nothing but a persist changes a stored ledger.
C17_PersistOverwrites ==
    [][/\ store' # store => \E w \in Workers : Acts(w) /\ worker[w].pc = "persist"
       /\ \A w \in Workers :
          LET loc == worker[w]
              c == RecordCoreid(loc)
          IN Acts(w) =>
                IF loc.pc = "persist" /\ worker'[w].persist = "ok"
                THEN /\ store'[c].exists
                     /\ store'[c].alerts = loc.updated_alert_log.val
                     /\ StoredReasons(store'[c]) =
                            Keys(loc.fetched.ledger)
                                \cup {loc.sent[i].reason : i \in DedupSends(loc)}
                     /\ \A i \in 1..Len(loc.fetched.ledger) :
                            \/ loc.fetched.ledger[i][1] \in
                                   {loc.sent[j].reason : j \in DedupSends(loc)}
                            \/ \E k \in 1..Len(store'[c].alerts) :
                                   store'[c].alerts[k] = loc.fetched.ledger[i]
                     /\ \A r \in StoredReasons(store[c]) \ StoredReasons(store'[c]) :
                            r \notin Keys(loc.fetched.ledger)
                ELSE store' = store]_vars

\* a persist after which a reason that was stored, and had expired when the
\* evaluation fetched the ledger, is no longer in the stored object
C17_Witness ==
    LET loc == worker["w1"]
        c == RecordCoreid(loc)
    IN /\ loc.pc \in {"upload", "done"} /\ loc.persist = "ok"
       /\ loc.fetched.ok /\ loc.fetched.found
       /\ \E d \in dispatched :
             /\ d.coreid = c
             /\ loc.fetched.at - d.at >= ALERT_EXPIRATION_MINUTES
             /\ c \notin unsaved
             /\ d.reason \notin StoredReasons(store[c])


(***************************************************************************)
(* Claims about the ledger fetch (checked under LedgerSpec)                *)
(***************************************************************************)
\* a stored entry that is well-formed and younger than the window at now
RecentEntry(e, now) ==
    /\ Len(e[1]) > 0
    /\ e[2].iso \in {"aware", "zulu"}
    /\ now - e[2].t < ALERT_EXPIRATION_MINUTES

\* an entry whose timestamp is empty or cannot be used
UnusableEntry(e) == e[2].iso \notin {"aware", "zulu"}

\* C18 as stated: when the stored ledger is readable, get_recent_alerts returns
\* exactly the stored entries with non-empty reason and timestamp whose
\* timestamp parses and whose age is strictly less than the window; an entry
\* with an empty or unusable timestamp is dropped alone.
C18_AsStated ==
    [][\A w \in Workers :
          (worker[w].pc = "fetch" /\ worker'[w].fetched.done /\ worker'[w].fetched.ok)
              => worker'[w].fetched.ledger =
                     SelectSeq(store[RecordCoreid(worker[w])].alerts,
                               LAMBDA e : RecentEntry(e, clock))]_vars


\* timestamp and published_at are both present and parse to instants, and
\* published_at lies more than the threshold after timestamp
LatencyDue(parsed) ==
    /\ Has(parsed, "timestamp") /\ parsed.timestamp.iso \in {"aware", "zulu"}
    /\ parsed.published_at.iso \in {"aware", "zulu"}
    /\ parsed.published_at.t - parsed.timestamp.t > MAX_LATENCY_MINUTES

\* check_and_alert has built its candidates for the record of the invocation
Evaluated19(loc) == IsDict(loc.parsed) /\ loc.pc \notin {"idle", "check", "crashed"}

\* C19: a latency candidate is produced exactly when timestamp and published_at
\* are both present and parse and published_at - timestamp > 30 minutes (exactly
\* 30 gives none, an unparsable or non-comparable value gives none and nothing is
\* raised); without an invalid or error candidate it is the deploy-track alert,
\* dispatched iff the fetched ledger has no entry 'latency' and then stored under
\* 'latency' with the time of dispatch; with an error candidate it is a note on it.
C19_LatencyRule ==
    \A w \in Workers :
        LET loc == worker[w]
            other == loc.parsed.datatype \in {"invalid", "error"}
        IN Evaluated19(loc) =>
              /\ ~loc.check_raised
              /\ (~other /\ LatencyDue(loc.parsed)) =>
                    /\ IsDict(loc.deploy_alert) /\ loc.deploy_alert.reason = StrLatency
                    /\ AfterDeploy(loc) =>
                          ((\E i \in DedupSends(loc) : loc.sent[i].reason = StrLatency)
                               <=> StrLatency \notin Keys(loc.fetched.ledger))
                    /\ (loc.pc \in {"upload", "done"}
                            /\ StrLatency \notin Keys(loc.fetched.ledger)) =>
                          /\ loc.persist = "ok"
                          /\ StrLatency \in Keys(store[RecordCoreid(loc)].alerts)
                          /\ Lookup(store[RecordCoreid(loc)].alerts, StrLatency)
                                 = IsoFormat(loc.fetched.at)
              /\ (~other /\ ~LatencyDue(loc.parsed)) => ~IsDict(loc.deploy_alert)
              /\ other =>
                    /\ IsDict(loc.deploy_alert) /\ loc.deploy_alert.reason # StrLatency
                    /\ Has(loc.deploy_alert, "latency") <=> LatencyDue(loc.parsed)
                    /\ \A i \in DedupSends(loc) : loc.sent[i].reason # StrLatency

\* a reading published 31 minutes after its timestamp was answered with a latency
\* alert that is now stored under 'latency'
C19_Witness ==
    LET loc == worker["w1"]
    IN /\ loc.pc = "done" /\ IsDict(loc.parsed)
       /\ loc.parsed.datatype = "environment"
       /\ loc.parsed.published_at.t - loc.parsed.timestamp.t = MAX_LATENCY_MINUTES + 1
       /\ \E i \in DedupSends(loc) :
             loc.sent[i].reason = StrLatency /\ loc.sent[i].to = EMAIL_RECIPIENT_DEPLOY
       /\ StrLatency \in Keys(store[RecordCoreid(loc)].alerts)


\* ---- the shape an input was built with
StartupTail(tail) ==
    Len(tail) >= Len(SetupDone) /\ SubSeq(tail, 1, Len(SetupDone)) = SetupDone

\* the tail is E and digits once whitespace is normalized
ErrorTail(tail) ==
    LET t == CollapseWs(RStrip(tail))
    IN /\ Len(t) >= 3 /\ t[1] = " " /\ t[2] = "E"
       /\ \A i \in 3..Len(t) : IsDigit(t[i])

\* the comma-separated tokens of an environment input after its optional
\* leading comma
TokensAfterLead(in) ==
    LET toks == <<in.box>> \o in.date \o in.readings
    IN IF Strip(in.lead) = <<>> /\ Len(Strip(in.box)) = 0 /\ Len(toks) > 1
       THEN Tail(toks) ELSE toks

EnvironmentShape(in) ==
    /\ Len(TokensAfterLead(in)) >= 9
    /\ DigitOrEmptyToks(Tail(TokensAfterLead(in)))

\* C20: the shapes are tried in the order startup, error, environment and the
\* first that matches is returned, otherwise unknown; a startup or error message
\* with a date or time out of range keeps datatype and box_id (and error_code)
\* and is malformed, never unknown; an input with fewer than 9 tokens after the
\* optional leading comma, or a non-digit token after the first, is never
\* environment.
C20_ClassificationPriority ==
    Parsed =>
        /\ ~presult.raised
        /\ (praw.shape = "msg" /\ StartupTail(praw.tail)) =>
              /\ PRec.datatype = "startup"
              /\ Has(PRec, "box_id") /\ PRec.box_id = praw.box
              /\ IsMalformed(PRec) <=> ~ValidMsgDate(praw.date)
        /\ (praw.shape = "msg" /\ ErrorTail(praw.tail)) =>
              /\ PRec.datatype = "error"
              /\ Has(PRec, "box_id") /\ PRec.box_id = praw.box
              /\ Has(PRec, "error_code")
              /\ <<" ">> \o PRec.error_code = CollapseWs(RStrip(praw.tail))
              /\ IsMalformed(PRec) <=> ~ValidMsgDate(praw.date)
        /\ (praw.shape = "msg" /\ ~StartupTail(praw.tail) /\ ~ErrorTail(praw.tail)) =>
              PRec.datatype = "unknown"
        /\ praw.shape = "env" =>
              PRec.datatype = IF EnvironmentShape(praw) THEN "environment" ELSE "unknown"
        /\ PRec.datatype = "environment" =>
              praw.shape = "env" /\ EnvironmentShape(praw)

\* a startup message that also has the environment shape (nine tokens, all but
\* the first numeric), with a month out of range: startup, malformed, box kept
C20_Witness ==
    /\ Parsed /\ ~presult.raised
    /\ praw.shape = "msg" /\ praw.tail = SetupDoneThenTokens
    /\ ~ValidMsgDate(praw.date)
    /\ praw.box = <<"B", "O", "X", "1">>
    /\ PRec.datatype = "startup" /\ PRec.box_id = praw.box /\ IsMalformed(PRec)


(***************************************************************************)
(* Claims about aborted invocations (checked under AbortSpec)              *)
(***************************************************************************)
\* the stored object is a map from reason to timestamp: keys distinct and not
\* empty, every value the ISO text of an instant with offset
LedgerIsMap(blob) ==
    /\ \A i, j \in 1..Len(blob.alerts) : blob.alerts[i][1] = blob.alerts[j][1] => i = j
    /\ \A i \in 1..Len(blob.alerts) :
          /\ Len(blob.alerts[i]) = 2
          /\ Len(blob.alerts[i][1]) > 0
          /\ blob.alerts[i][2].iso = "aware"
    /\ ~blob.exists => blob.alerts = <<>>

\* the host ended the invocation of w in this step, after it had dispatched
AbortedAfterDispatch(w) ==
    /\ worker[w].pc \in {"deploy", "develop", "persist"}
    /\ worker'[w].pc = "crashed"
    /\ worker[w].alerts_triggered

\* C21: an invocation aborted after a dispatch and before upload_alert_log runs
\* leaves every stored ledger as it was before the invocation (nothing but the
\* upload writes); afterwards a candidate is never suppressed without a dispatch
\* of its reason less than the window before, and a dispatch repeated inside the
\* window happens only for a device with an aborted invocation; every stored
\* ledger is a map from reason to timestamp in every reachable state.
C21_AbortedInvocation ==
    /\ [](\A c \in CoreIds : LedgerIsMap(store[c]))
    /\ [][\A w \in Workers :
             /\ (Acts(w) /\ worker[w].pc # "persist") => store' = store
             /\ AbortedAfterDispatch(w) => store' = store
             /\ (LoopStep(w) /\ IsDict(TrackAlert(worker[w]))
                    /\ worker'[w].pc # "crashed") =>
                   LET loc == worker[w]
                       recent == {d \in PriorDispatches(RecordCoreid(loc),
                                                        TrackAlert(loc).reason) :
                                     loc.fetched.at - d.at < ALERT_EXPIRATION_MINUTES}
                   IN IF Len(worker'[w].sent) > Len(loc.sent)
                      THEN recent # {} => RecordCoreid(loc) \in unsaved
                      ELSE recent # {}]_vars

\* an invocation dispatched E7 and was aborted, the ledger of its device stayed
\* as it was, and a later invocation inside the window dispatched E7 again and
\* stored it
C21_Witness ==
    LET loc == worker["w1"]
    IN /\ loc.pc = "done" /\ IsDict(loc.parsed) /\ loc.persist = "ok"
       /\ RecordCoreid(loc) \in unsaved
       /\ \E i \in DedupSends(loc), d \in dispatched :
             /\ d.coreid = RecordCoreid(loc) /\ d.reason = loc.sent[i].reason
             /\ d.reason = <<"E", "7">>
             /\ d.at < loc.sent[i].at
             /\ loc.sent[i].at - d.at < ALERT_EXPIRATION_MINUTES
             /\ Lookup(store[RecordCoreid(loc)].alerts, d.reason) = IsoFormat(loc.sent[i].at)


(***************************************************************************)
(* Claims about a recurring condition (checked under RecurSpec)            *)
(***************************************************************************)
\* the reasons an evaluation dispatched
DispatchedReasons(loc) == {loc.sent[i].reason : i \in DedupSends(loc)}

\* the ledger check_and_alert returned: the fetched entries, unchanged, and the
\* reasons dispatched by the evaluation with the time of their dispatch
ReturnedLedgerFrame(loc) ==
    LET log == loc.updated_alert_log.val
    IN /\ Keys(log) = Keys(loc.fetched.ledger) \cup DispatchedReasons(loc)
       /\ \A i \in 1..Len(loc.fetched.ledger) :
             \E k \in 1..Len(log) : log[k] = loc.fetched.ledger[i]
       /\ \A i \in DedupSends(loc) :
             /\ loc.sent[i].reason \notin Keys(loc.fetched.ledger)
             /\ Lookup(log, loc.sent[i].reason) = IsoFormat(loc.sent[i].at)
       /\ \A alert \in {loc.deploy_alert, loc.develop_alert} :
             (IsDict(alert) /\ alert.reason \in Keys(loc.fetched.ledger)) =>
                 /\ alert.reason \notin DispatchedReasons(loc)
                 /\ Lookup(log, alert.reason) = Lookup(loc.fetched.ledger, alert.reason)

\* C22: the ledger returned by check_and_alert holds every fetched entry with
\* its timestamp unchanged plus exactly the reasons dispatched in the evaluation,
\* stamped with the time of dispatch; a suppressed candidate does not refresh its
\* timestamp, so a candidate is dispatched exactly when the last dispatch of its
\* reason lies a full window or more before the fetch.
C22_LedgerUpdateFrame ==
    /\ [](\A w \in Workers :
             (HasReturned(worker[w]) /\ worker[w].updated_alert_log.py = "value")
                 => ReturnedLedgerFrame(worker[w]))
    /\ [][\A w \in Workers :
             (LoopStep(w) /\ IsDict(TrackAlert(worker[w]))) => WindowRule(w)]_vars

\* E7 was dispatched at the start; 359 minutes later it was suppressed by an
\* evaluation that dispatched and persisted 'malformed'; one minute after that,
\* the window since its dispatch over, E7 is dispatched again
C22_Witness ==
    LET loc == worker["w1"]
        e7 == <<"E", "7">>
    IN /\ loc.pc = "done" /\ IsDict(loc.parsed) /\ loc.persist = "ok"
       /\ \E i \in DedupSends(loc) :
             /\ loc.sent[i].reason = e7
             /\ loc.sent[i].at = StartTime + ALERT_EXPIRATION_MINUTES
       /\ StrMalformed \in Keys(loc.fetched.ledger)
       /\ Lookup(loc.fetched.ledger, StrMalformed)
              = IsoFormat(StartTime + ALERT_EXPIRATION_MINUTES - 1)
       /\ \E d \in dispatched :
             d.coreid = RecordCoreid(loc) /\ d.reason = e7 /\ d.at = StartTime
       /\ \A d \in dispatched :
             d.reason = e7 => d.at \in {StartTime, StartTime + ALERT_EXPIRATION_MINUTES}
       /\ Lookup(store[RecordCoreid(loc)].alerts, StrMalformed)
              = IsoFormat(StartTime + ALERT_EXPIRATION_MINUTES - 1)


(***************************************************************************)
(* Claims about latency attached to an error (checked under LedgerSpec)    *)
(***************************************************************************)
\* the record is an error message with high latency and the ledger was fetched
LateError(loc) ==
    /\ IsDict(loc.parsed) /\ loc.parsed.datatype = "error"
    /\ LatencyDue(loc.parsed)
    /\ loc.fetched.done /\ loc.fetched.ok

\* C23: for an error record with high latency whose error code is in the fetched
\* non-expired ledger, the evaluation sends no deploy-track email and records
\* nothing, whether or not the ledger has an entry 'latency'; when the error code
\* is not in the ledger the error alert is sent with the latency note and is
\* recorded under the error code only, also when 'latency' is in the ledger.
C23_LatencyMasked ==
    \A w \in Workers :
        LET loc == worker[w]
            code == loc.parsed.error_code
        IN (LateError(loc) /\ AfterDeploy(loc)) =>
              /\ IsDict(loc.deploy_alert) /\ loc.deploy_alert.reason = code
              /\ Has(loc.deploy_alert, "latency")
              /\ code \in Keys(loc.fetched.ledger) =>
                    /\ loc.sent = <<>>
                    /\ ~loc.alerts_triggered
                    /\ loc.recent_alerts = loc.fetched.ledger
                    /\ HasReturned(loc) => loc.updated_alert_log = NoneVal
                    /\ loc.pc \in {"upload", "done"} => loc.persist = "skipped"
              /\ code \notin Keys(loc.fetched.ledger) =>
                    /\ DispatchedReasons(loc) = {code}
                    /\ \A i \in DedupSends(loc) : loc.sent[i].to = EMAIL_RECIPIENT_DEPLOY
                    /\ Keys(loc.recent_alerts) = Keys(loc.fetched.ledger) \cup {code}
                    /\ StrLatency \in Keys(loc.fetched.ledger) =>
                          Lookup(loc.recent_alerts, StrLatency)
                              = Lookup(loc.fetched.ledger, StrLatency)

\* an error message published 31 minutes late whose code E7 is in the ledger
\* while 'latency' is not: the invocation ended without any email and without
\* writing the ledger
C23_Witness ==
    LET loc == worker["w1"]
    IN /\ loc.pc = "done" /\ LateError(loc)
       /\ loc.parsed.error_code \in Keys(loc.fetched.ledger)
       /\ StrLatency \notin Keys(loc.fetched.ledger)
       /\ StrLatency \notin Keys(store[RecordCoreid(loc)].alerts)
       /\ loc.sent = <<>> /\ loc.persist = "skipped" /\ loc.status = 200

====
